---- MODULE Spec2Model ----
(***************************************************************************)
(* Model of the server-side session engine of slither-ios:                 *)
(*   com.slitherios.gameState.GameState                                    *)
(*   com.slitherios.actionHandlers.UpdatePositionHandler                   *)
(*   com.slitherios.actionHandlers.NewClientHandler (the username check)   *)
(* and of the parts of the client that feed it:                            *)
(*   game/GameCanvas.tsx (updatePositions, moveSnake)                      *)
(*   game/snake/SnakeScaling.ts (calculateSnakeScale)                      *)
(*                                                                         *)
(* Numbers.  The server works with doubles.  Every coordinate, radius and  *)
(* distance of the model is an integer count of 1/200 of a game unit: the  *)
(* collision radius moves in steps of 0.025 = 5/200 per score point, the   *)
(* server rounds to 0.01 = 2/200 and the clients send positions with up to *)
(* three decimals, so the values the model draws are exact; only the       *)
(* segment spacing of a snake that joins with a score not divisible by 7   *)
(* is rounded down to 1/200.  The two boost accumulators only ever hold    *)
(* multiples of 0.5 and are counted in halves; the growth accumulator is   *)
(* an exact sum of fractions.                                              *)
(***************************************************************************)
EXTENDS Integers, Sequences, FiniteSets, TLC

\* ------------------------------------------------------------------------
\* Bounds of the model
\* ------------------------------------------------------------------------
MaxUpdates == 2

MaxSoloUpdates == 4

MaxTicks == 1

MaxGrowthUpdates == 10

\* Longest run of stacked segments in the dead tracks drawn.
MaxRun == 4

MaxDropUpdates == 1

\* Largest initial score a player joins with.
MaxInitialScore == 80

MaxRejoinUpdates == 1

MaxNamesUpdates == 1

\* A session constructed during a run receives at most this many updates.
MaxSessionUpdates == 2

\* Largest score a snake is rendered with.
MaxRenderScore == 2120

\* Largest change of a score between two renderings of a snake.
MaxScoreStep == 10

\* Number of ticks of the client's updatePositions.
MaxClientTicks == 12

\* ------------------------------------------------------------------------
\* Program constants
\* ------------------------------------------------------------------------
SPAWN_LENGTH == 10

\* A spacing of zero: no position is ever too close to the last orb.
MIN_ORB_DISTANCE_None == 1 - 1

MIN_ORB_DISTANCE == 3

ARENA_HALF_EXTENT == 1500

BASE_SNAKE_SIZE == 35

MAX_SNAKE_SCALE == 4

\* Number of model units in one game unit (see the header).
UnitsPerPixel == 2 * 100

\* A boost cost of one point per update, in halves.
BOOST_COST_PER_UPDATE_WholePoint == 1 + 1

\* BOOST_COST_PER_UPDATE = 0.5, counted in halves.
BOOST_COST_PER_UPDATE_HALVES == 2 \div 2

\* SnakeScaling: the score at which the comment of SCALE_FACTOR says the size
\* hits the maximum.
DOCUMENTED_MAX_SCORE == 1400

\* GameCanvas: the score needed to start a boost session.
MIN_BOOST_SCORE == 10

\* POINTS_PER_SEGMENT = 2: a deducted point is worth 1/2 segment, i.e. one half.
POINTS_PER_SEGMENT == 2

Users == {"A", "B"}

Threads == {1, 2}

NoThread == 1 - 1

\* ------------------------------------------------------------------------
\* Positions and inputs
\* ------------------------------------------------------------------------
Pos(x, y) == <<x, y>>

PX(p) == p[1]

PY(p) == p[2]

\* The head positions the clients send (x, y in 1/200 of a game unit):
\*   (600, 95)     one step ahead of the spawn column, within reach of the
\*                 first cells of a snake that still sits at its spawn place
\*   (700, 0)      the place of an item, far from the spawn column
\*   (700, 10)     a second place within reach of that item and of the
\*                 second item at (700, 25)
\*   (1482.5, 0)   exactly ARENA_HALF_EXTENT - collisionRadius(0) on the x axis
\*   (1483.5, 0)   one game unit further out
HeadInputs ==
  { Pos(600 * UnitsPerPixel, 95 * UnitsPerPixel),
    Pos(700 * UnitsPerPixel, 0),
    Pos(700 * UnitsPerPixel, 10 * UnitsPerPixel),
    Pos(ARENA_HALF_EXTENT * UnitsPerPixel - (BASE_SNAKE_SIZE * UnitsPerPixel) \div 2, 0),
    Pos(ARENA_HALF_EXTENT * UnitsPerPixel - (BASE_SNAKE_SIZE * UnitsPerPixel) \div 2 + UnitsPerPixel, 0) }

\* The head positions of the two-player runs: the spawn column, the item, the
\* boundary threshold.
ContestedHeads ==
  { Pos(600 * UnitsPerPixel, 95 * UnitsPerPixel),
    Pos(700 * UnitsPerPixel, 0),
    Pos(ARENA_HALF_EXTENT * UnitsPerPixel - (BASE_SNAKE_SIZE * UnitsPerPixel) \div 2, 0) }

\* The head positions of the long single-player runs: (700.005, 0), a position
\* with a third decimal, within reach of the item at (700, 0), and the boundary
\* threshold (1482.5, 0), where the run ends.
GrowthHeads ==
  { Pos(700 * UnitsPerPixel + 1, 0),
    Pos(ARENA_HALF_EXTENT * UnitsPerPixel - (BASE_SNAKE_SIZE * UnitsPerPixel) \div 2, 0) }

\* The head position of the runs that follow a death at the boundary threshold:
\* (1470, 0), inside the arena and within reach of the dead snake's items.
ScavengerHeads == { Pos(1470 * UnitsPerPixel, 0) }

\* The tail position a client claims to have removed.
RemoveInputs == { Pos(600 * UnitsPerPixel, 145 * UnitsPerPixel), Pos(0, 0) }

\* The fields of an UPDATE_POSITION message: the two positions and their coordinates.
RequiredFields == {"add", "remove", "add.x", "add.y", "remove.x", "remove.y"}

\* The shapes of the messages the clients send: a complete one, one without the
\* remove position, one whose add position has no y.
MessageShapes ==
  { RequiredFields,
    {"add", "add.x", "add.y"},
    {"add", "add.x", "remove", "remove.x", "remove.y"} }

\* The usernames of the runs in which the players have names of their own.
DistinctNames == [user \in Users |-> IF user = "A" THEN "ann" ELSE "bob"]

\* The usernames of the runs in which both players ask for the same name,
\* written in different case.
ClashingNames == [user \in Users |-> IF user = "A" THEN "Ann" ELSE "ANN"]

\* String.equalsIgnoreCase on the usernames of the model.
LowerCase(name) == IF name \in {"Ann", "ANN", "ann"} THEN "ann" ELSE name

EqualsIgnoreCase(a, b) == LowerCase(a) = LowerCase(b)

\* The colour of the items the generator places (no skin has it).
AmbientColor == "ambient"

\* OrbColor.getColorForSkin: every player of the model has a skin of its own,
\* named after the player.
ColorForSkin(user) == user

\* The items the generator can place: position, size, colour.
OrbCandidates ==
  { [position |-> Pos(700 * UnitsPerPixel, 0), size |-> "SMALL", color |-> AmbientColor],
    [position |-> Pos(700 * UnitsPerPixel, 25 * UnitsPerPixel), size |-> "SMALL",
     color |-> AmbientColor] }

\* The item of the long single-player runs: one of value 10 at (700, 0).
GrowthOrbCandidates ==
  { [position |-> Pos(700 * UnitsPerPixel, 0), size |-> "LARGE", color |-> AmbientColor] }

\* The places of the runs that follow a death: one more than the target count.
RefillOrbCandidates ==
  OrbCandidates \cup
    { [position |-> Pos(700 * UnitsPerPixel, 50 * UnitsPerPixel), size |-> "SMALL",
       color |-> AmbientColor] }

\* Target number of ambient items kept alive by the generator.
MaxOrbCount == Cardinality(OrbCandidates)

\* ------------------------------------------------------------------------
\* Small helpers
\* ------------------------------------------------------------------------
Min(a, b) == IF a <= b THEN a ELSE b

Max(a, b) == IF a >= b THEN a ELSE b

Abs(a) == IF a >= 0 THEN a ELSE -a

RECURSIVE Gcd(_, _)
Gcd(a, b) == IF b = 0 THEN a ELSE Gcd(b, a % b)

\* java.util.Map put / remove / getOrDefault on a map held as a function.
MapPut(m, k, v) == [x \in (DOMAIN m) \cup {k} |-> IF x = k THEN v ELSE m[x]]

MapRemove(m, k) == [x \in (DOMAIN m) \ {k} |-> m[x]]

MapGetOrDefault(m, k, d) == IF k \in DOMAIN m THEN m[k] ELSE d

EmptyMap == [x \in {} |-> 0]

\* The set of elements of a sequence.
Range(s) == { s[i] : i \in DOMAIN s }

\* Exact fractions <<n, d>>, d > 0, kept reduced.
Frac(n, d) == LET g == Gcd(Abs(n), d) IN <<n \div g, d \div g>>

FracAdd(a, b) == Frac(a[1] * b[2] + b[1] * a[2], a[2] * b[2])

\* (int) of a non-negative fraction.
FracFloor(a) == a[1] \div a[2]

\* The growth accumulator is the exact sum  whole + SUM parts[d] / d  over the
\* denominators d of the contributions made so far, with 0 <= parts[d] < d.
\* Contributions of different denominators are never multiplied out, so the
\* numbers stay small however many items are eaten.
AccZero == [whole |-> 0, parts |-> EmptyMap]

\* a + n / d.
AccAdd(a, n, d) ==
  LET sum == MapGetOrDefault(a.parts, d, 0) + n
  IN  [whole |-> a.whole + sum \div d,
       parts |-> IF sum % d = 0 THEN MapRemove(a.parts, d) ELSE MapPut(a.parts, d, sum % d)]

\* SUM over the denominators d of parts with lo <= d < hi of
\* floor(parts[d] * 100000 / d): the fractional parts in 1/100000, each rounded
\* down.  The range is halved until it holds one denominator.
RECURSIVE PartsLow(_, _, _)
PartsLow(parts, lo, hi) ==
  IF \A d \in DOMAIN parts : d < lo \/ d >= hi THEN 0
  ELSE IF hi - lo = 1 THEN (parts[lo] * 100000) \div lo
  ELSE CHOOSE sum \in { PartsLow(parts, lo, mid) + PartsLow(parts, mid, hi) :
                          mid \in { (lo + hi) \div 2 } } : TRUE

\* SUM over ds of parts[d] / d as one fraction.
RECURSIVE PartsExact(_, _)
PartsExact(parts, ds) ==
  IF ds = {} THEN <<0, 1>>
  ELSE LET d == CHOOSE x \in ds : TRUE
       IN  FracAdd(Frac(parts[d], d), PartsExact(parts, ds \ {d}))

\* (int) of the accumulator.  The sum of the fractional parts lies in
\* [low, low + #parts) / 100000; when both ends have the same integer part that
\* is the answer, otherwise the sum is multiplied out.
AccFloor(a) ==
  CHOOSE floor \in
    { LET acc == p[1]
          low == p[2]
          ds  == DOMAIN acc.parts
      IN  IF ds = {} THEN acc.whole
          ELSE IF low \div 100000 = (low + Cardinality(ds) - 1) \div 100000
          THEN acc.whole + low \div 100000
          ELSE acc.whole + FracFloor(PartsExact(acc.parts, ds)) :
        p \in { <<v, PartsLow(v.parts, 1, 5 * 2000 + 1)>> : v \in {a} } } : TRUE

\* An accumulator that keeps its integer part.
AccSubInt_Kept(a, k) == a

\* a - k.
AccSubInt(a, k) == [a EXCEPT !.whole = @ - k]

\* ------------------------------------------------------------------------
\* State
\* ------------------------------------------------------------------------
VARIABLES
  userToOthersPositions,      \* GameState.userToOthersPositions : User -> Set<Position>
  userToOwnPositions,         \* GameState.userToOwnPositions    : User -> Set<Position>
  userToSnakeDeque,           \* GameState.userToSnakeDeque      : User -> Deque<Position>, head first
  positionToUser,             \* GameState.positionToUser        : Position -> User
  orbs,                       \* GameState.orbs                  : Set<Orb>
  numDeathOrbs,               \* GameState.numDeathOrbs
  userOrbSegmentAccumulator,  \* GameState.userOrbSegmentAccumulator : User -> accumulator
  userBoostCostAccumulator,   \* UpdatePositionHandler.userBoostCostAccumulator : User -> halves
  userSegmentAccumulator,     \* UpdatePositionHandler.userSegmentAccumulator   : User -> halves
  userLocks,                  \* GameState.userLocks : User -> the thread holding the lock, or NoThread
  leaderboard,                \* Leaderboard of the session : User -> score
  threads,                    \* the update each handler thread is processing and where it is
  outbox,                     \* the messages each thread has sent during its current update
  youDiedSent,                \* per user, the number of YOU_DIED notices sent
  deathDrops,                 \* per user, the number of times death items were generated from its track
  joined,                     \* the users that have joined the session so far
  joining,                    \* the join requests that passed the name check: User -> initial score
  replay,                     \* the players of the session as a second, freshly started engine fed the same events holds them
  orbData,                    \* the item set of the last SEND_ORBS message sent to all session members
  snakeBody,                  \* client (App): per player, the length of gameState.snake.snakeBody
  scoreLedger,                \* per player: the initial score, the values of the items it took out of the item set, the points boosting deducted
  rendered,                   \* client: the score of the snake last rendered and the segment size it was drawn with
  boostSessionActive,         \* client (GameCanvas): a boost session is active
  sent,                       \* client: the boosting flags of the updates sent and not yet taken by a handler thread
  clientTicks,                \* client: the ticks of updatePositions so far, and those of them that boosted
  joinable,                   \* the users that may join in this run
  names,                      \* the usernames of the users in this run
  scores,                     \* the initial scores the users join with in this run
  workers,                    \* the handler threads that receive updates in this run
  heads,                      \* the head positions the clients send in this run
  boosts,                     \* the boosting flags the clients send in this run
  places,                     \* the items the generator can place in this run
  updatesLeft,                \* the number of updates still to arrive
  ticksLeft                   \* the number of replenish ticks still to come

vars == << userToOthersPositions, userToOwnPositions, userToSnakeDeque, positionToUser,
           orbs, numDeathOrbs, userOrbSegmentAccumulator, userBoostCostAccumulator,
           userSegmentAccumulator, userLocks, leaderboard, threads, outbox, youDiedSent,
           deathDrops, joined, joining, replay, orbData, snakeBody, scoreLedger, rendered, boostSessionActive, sent,
           clientTicks, joinable, names, scores, workers, heads, boosts,
           places, updatesLeft, ticksLeft >>

\* The variables of the client.
clientVars == << rendered, boostSessionActive, sent, clientTicks >>

\* The variables that describe the run and never change.
runVars == << joinable, names, scores, workers, heads, boosts, places >>

IdleThread ==
  [pc |-> "idle", user |-> "none", fields |-> RequiredFields, toAdd |-> Pos(0, 0),
   toRemove |-> Pos(0, 0), boosting |-> FALSE, actualRemoved |-> Pos(0, 0), allOrbs |-> {}, thisUserScore |-> 0,
   deadSnakePositions |-> <<>>]

\* The keys of the data map the server puts into a message of each type.
DataKeys(type) ==
  CASE type = "UPDATE_POSITION"       -> {"add", "remove", "skinId", "username", "boosting"}
    [] type = "OTHER_USER_DIED"       -> {"removePositions"}
    [] type = "SEND_ORBS"             -> {"orbSet"}
    [] type = "INCREASE_OWN_LENGTH"   -> {"newBodyParts"}
    [] type = "INCREASE_OTHER_LENGTH" -> {"newBodyParts", "skinId"}
    [] type = "DECREASE_OWN_LENGTH"   -> {"count"}
    [] type = "DECREASE_OTHER_LENGTH" -> {"removedPositions", "skinId"}
    [] OTHER                          -> {}

\* A message handed to the send layer: its type, the player whose update sent
\* it, its addressees, the list of positions it carries and the keys of its data.
Msg(type, from, to, positions) ==
  [type |-> type, from |-> from, to |-> to, positions |-> positions, keys |-> DataKeys(type)]

\* ------------------------------------------------------------------------
\* SnakeScaling
\* ------------------------------------------------------------------------
\* The size without the cap at MAX_SNAKE_SCALE.
SnakeSize_Uncapped(score) ==
  BASE_SNAKE_SIZE * UnitsPerPixel + score * (UnitsPerPixel \div 20)

\* Size of a segment in model units: min(35 * 4, 35 + score * 0.05) game units.
SnakeSize(score) ==
  Min(BASE_SNAKE_SIZE * MAX_SNAKE_SCALE * UnitsPerPixel,
      BASE_SNAKE_SIZE * UnitsPerPixel + score * (UnitsPerPixel \div 20))

\* The scale 1.0, counted in the units of calculateSnakeScale below.
ScaleUnit == BASE_SNAKE_SIZE * UnitsPerPixel

\* calculateSnakeScale(score) = size / BASE_SNAKE_SIZE, counted in 1/ScaleUnit.
CalculateSnakeScale(score) == SnakeSize(score)

\* (BASE_SNAKE_SIZE / 2) * calculateSnakeScale(score), in model units.
CalculateCollisionRadius(score) == SnakeSize(score) \div 2

\* pointsPerSegment(score) in 1/2000 of a point: 2 at score 0, 5 from score 2000 on,
\* linear in between.
CalculatePointsPerSegment2000(score) == 4000 + 3 * Min(Max(score, 0), 2000)

\* ------------------------------------------------------------------------
\* Leaderboard
\* ------------------------------------------------------------------------
\* Leaderboard.getCurrentScore, with null rendered as the default 0.
GetCurrentScore(lb, user) == MapGetOrDefault(lb, user, 0)

\* A score update that takes every delta as a cost and does not floor.
HandleUpdateScore_AlwaysCost(lb, user, delta) ==
  IF user \in DOMAIN lb THEN [lb EXCEPT ![user] = lb[user] - Abs(delta)] ELSE lb

\* SlitherServer.handleUpdateScore: add the delta, floored at 0; unknown user: no-op.
HandleUpdateScore(lb, user, delta) ==
  IF user \in DOMAIN lb THEN [lb EXCEPT ![user] = Max(0, lb[user] + delta)] ELSE lb

\* ------------------------------------------------------------------------
\* Geometry
\* ------------------------------------------------------------------------
\* distance(a, b) <= threshold, on exact integers: sqrt(dx^2 + dy^2) <= t
\* iff |dx| <= t, |dy| <= t and dx^2 + dy^2 <= t^2.
WithinDistance(a, b, threshold) ==
  LET dx == Abs(PX(a) - PX(b))
      dy == Abs(PY(a) - PY(b))
  IN  /\ dx <= threshold
      /\ dy <= threshold
      /\ dx * dx + dy * dy <= threshold * threshold

\* distance(a, b) < threshold.
CloserThan(a, b, threshold) ==
  LET dx == Abs(PX(a) - PX(b))
      dy == Abs(PY(a) - PY(b))
  IN  /\ dx < threshold
      /\ dy < threshold
      /\ dx * dx + dy * dy < threshold * threshold

\* Math.round(v * 100) / 100.0 on a coordinate counted in 1/200: round half up
\* to a multiple of 0.01.
Round2(v) == 2 * ((v + 1) \div 2)

\* ------------------------------------------------------------------------
\* Joining: addUser and createNewSnake
\* ------------------------------------------------------------------------
\* calculateSnakeLengthFromScore: base length 10; one point at a time is added
\* to an accumulator and a segment is emitted whenever the accumulator reaches
\* pointsPerSegment of the score so far.  The accumulator is in 1/2000 of a point.
\* One pass of the loop, for the point that takes the score from s to s + 1.
SnakeLengthStep(s, st) ==
  LET pps  == CalculatePointsPerSegment2000(s)
      acc  == st.accumulated + 2000
      emit == acc \div pps
  IN  [segments |-> st.segments + emit, accumulated |-> acc - emit * pps]

\* The passes for s = lo, ..., hi - 1, one after the other (the range is
\* halved: first half, then second half from where the first ended).
RECURSIVE SnakeLengthLoop(_, _, _)
SnakeLengthLoop(lo, hi, st) ==
  IF lo >= hi THEN st
  ELSE IF hi - lo = 1 THEN SnakeLengthStep(lo, st)
  ELSE LET mid == (lo + hi) \div 2
       IN  CHOOSE last \in { SnakeLengthLoop(mid, hi, first) :
                               first \in { SnakeLengthLoop(lo, mid, st) } } : TRUE

CalculateSnakeLengthFromScore(score) ==
  IF score <= 0 THEN SPAWN_LENGTH
  ELSE SnakeLengthLoop(0, score, [segments |-> SPAWN_LENGTH, accumulated |-> 0]).segments

\* The positions createNewSnakeWithScore lays out: the first 10 segments are
\* spaced 5 * scale apart below (600, 100), the others stack on the 10th.
NewSnakePositions(initialScore) ==
  LET snakeLength    == CalculateSnakeLengthFromScore(initialScore)
      segmentSpacing == (5 * SnakeSize(initialScore)) \div BASE_SNAKE_SIZE
  IN  [i \in 1..snakeLength |->
         Pos(600 * UnitsPerPixel,
             100 * UnitsPerPixel + segmentSpacing * (Min(i, SPAWN_LENGTH) - 1))]

\* positionToUser.put for every position of a list, in order.
IndexPutAll(index, positions, user) ==
  [p \in (DOMAIN index) \cup Range(positions) |->
     IF p \in Range(positions) THEN user ELSE index[p]]

\* isUsernameTaken: the scan over the users that have a deque.
IsUsernameTaken(username) ==
  \E user \in DOMAIN userToSnakeDeque : EqualsIgnoreCase(names[user], username)

\* handleNewClientWithCode for a session that exists: the request of a client
\* whose username is not taken passes (a taken username throws
\* UsernameTakenException and changes nothing); the user is created and handed
\* to the server, which adds it to the session in a later step.
HandleNewClient(user, initialScore) ==
  /\ user \in joinable
  /\ user \notin joined
  /\ user \notin DOMAIN joining
  /\ initialScore \in scores
  /\ ~IsUsernameTaken(names[user])
  /\ joining' = MapPut(joining, user, initialScore)
  /\ UNCHANGED << userToOthersPositions, userToOwnPositions, userToSnakeDeque,
                  positionToUser, orbs, numDeathOrbs, userOrbSegmentAccumulator,
                  userBoostCostAccumulator, userSegmentAccumulator, userLocks,
                  leaderboard, threads, outbox, youDiedSent, deathDrops, joined,
                  replay, clientVars, orbData, snakeBody, scoreLedger, runVars, updatesLeft, ticksLeft >>

\* The growth state of a player that has just joined a freshly constructed
\* engine with the score: the leaderboard entry, the length laid out by
\* createNewSnakeWithScore, and no entry in any accumulator (orbAcc is the
\* accumulator of the item loop; cost and shrink are the two accumulators of
\* the boost block, in halves).
ReplayJoin(initialScore) ==
  [score |-> initialScore, length |-> CalculateSnakeLengthFromScore(initialScore),
   orbAcc |-> AccZero, cost |-> 0, shrink |-> 0]

\* App: the client starts with a body of 10 segments.
INITIAL_BODY_LENGTH == 10

\* App, case INCREASE_OWN_LENGTH: every position of newBodyParts is pushed onto
\* snakeBody (body is the length of snakeBody).
IncreaseOwnLength(body, newBodyParts) == body + Len(newBodyParts)

\* A client without the case DECREASE_OWN_LENGTH.
DecreaseOwnLength_Ignored(body, count) == body

\* App, case DECREASE_OWN_LENGTH: snakeBody.pop() count times; pop leaves an
\* empty body empty.
DecreaseOwnLength(body, count) == Max(0, body - count)

\* createNewSnakeWithScore, additionalSegmentsForOwn: the positions of the new
\* snake beyond the first 10 (baseLength).
AdditionalSegmentsForOwn(newSnake) == SubSeq(newSnake, 10 + 1, Len(newSnake))

\* The client that passed the name check joins: addUser (empty own set, empty
\* others set, empty deque, a fresh lock), a leaderboard entry with the initial
\* score, then createNewSnakeWithScore.
Join(user) ==
  LET newSnake == NewSnakePositions(joining[user])
  IN  /\ user \in DOMAIN joining
      /\ joining' = MapRemove(joining, user)
      /\ joined' = joined \cup {user}
      /\ userToOwnPositions' = MapPut(userToOwnPositions, user, {})
      /\ userToOthersPositions' = MapPut(userToOthersPositions, user, {})
      /\ userToSnakeDeque' = MapPut(userToSnakeDeque, user, newSnake)
      /\ userLocks' = MapPut(userLocks, user, NoThread)
      /\ leaderboard' = MapPut(leaderboard, user, joining[user])
      /\ positionToUser' = IndexPutAll(positionToUser, newSnake, user)
      /\ replay' = MapPut(replay, user, ReplayJoin(joining[user]))
      /\ snakeBody' = MapPut(snakeBody, user,
           IF Len(AdditionalSegmentsForOwn(newSnake)) > 0
           THEN IncreaseOwnLength(INITIAL_BODY_LENGTH, AdditionalSegmentsForOwn(newSnake))
           ELSE INITIAL_BODY_LENGTH)
      /\ scoreLedger' = MapPut(scoreLedger, user,
           [initial |-> joining[user], consumed |-> 0, deducted |-> 0])
      /\ UNCHANGED << orbs, numDeathOrbs, userOrbSegmentAccumulator,
                      userBoostCostAccumulator, userSegmentAccumulator, threads,
                      outbox, youDiedSent, deathDrops, clientVars, orbData, runVars, updatesLeft, ticksLeft >>

\* ------------------------------------------------------------------------
\* handlePositionUpdate, first steps: the message, the lock, updateOwnPositions
\* ------------------------------------------------------------------------
\* A finally block that does not release the lock.
Unlock_Forgotten(locks, user) == locks

\* userLock.unlock() in the finally block of handlePositionUpdate.
Unlock(locks, user) == MapPut(locks, user, NoThread)

\* A lock that never excludes anybody.
LockIsFree_NeverHeld(user) == TRUE

\* userLock.lock() succeeds when no other thread holds the user's lock
\* (getUserLock creates the lock when the table has none).
LockIsFree(user) == MapGetOrDefault(userLocks, user, NoThread) = NoThread

\* The snake exists: the deque is there and is not empty.
SnakeExists(user) ==
  /\ user \in DOMAIN userToSnakeDeque
  /\ Len(userToSnakeDeque[user]) > 0

\* The deque after addFirst(toAdd) and removeLast().
MovedDeque(deque, toAdd) == SubSeq(<<toAdd>> \o deque, 1, Len(deque))

\* A handler accepting every message, whatever its fields.
HasRequiredFields_Unchecked(fields) == TRUE

\* The two field checks of handlePositionUpdate: the message has add and
\* remove, and each of them has x and y.
HasRequiredFields(fields) ==
  /\ "add" \in fields /\ "remove" \in fields
  /\ "add.x" \in fields /\ "add.y" \in fields
  /\ "remove.x" \in fields /\ "remove.y" \in fields

\* The thread that takes the next message: the first idle one.
Receiver(t) ==
  /\ t \in workers
  /\ threads[t].pc = "idle"
  /\ \A other \in workers : threads[other].pc = "idle" => t <= other

\* A message without the required fields arrives: handlePositionUpdate throws
\* MissingFieldException (message type ERROR) before it touches the session.
RejectUpdate(t, user, fields) ==
  /\ Receiver(t)
  /\ user \in joined
  /\ ~HasRequiredFields(fields)
  /\ updatesLeft > 0
  /\ updatesLeft' = updatesLeft - 1
  /\ outbox' = [outbox EXCEPT ![t] = << Msg("ERROR", user, "self", <<>>) >>]
  /\ UNCHANGED << userToOthersPositions, userToOwnPositions, userToSnakeDeque,
                  positionToUser, orbs, numDeathOrbs, userOrbSegmentAccumulator,
                  userBoostCostAccumulator, userSegmentAccumulator, userLocks,
                  leaderboard, threads, youDiedSent, deathDrops, joined, joining, replay, clientVars, orbData, snakeBody, scoreLedger, runVars,
                  ticksLeft >>

\* An update (toAdd, toRemove, boosting) of a user arrives at a handler thread
\* (the idle threads are interchangeable: the first of them takes it).  The
\* positions are read from the message and the thread goes for the user's lock.
TakeUpdate(t, user, fields, toAdd, toRemove, boosting) ==
  /\ Receiver(t)
  /\ HasRequiredFields(fields)
  /\ toAdd \in heads
  /\ toRemove \in RemoveInputs
  /\ boosting \in boosts
  /\ user \in joined
  /\ updatesLeft > 0
  /\ updatesLeft' = updatesLeft - 1
  /\ outbox' = [outbox EXCEPT ![t] = <<>>]
  /\ threads' = [threads EXCEPT ![t] =
       [pc |-> "lock", user |-> user, fields |-> fields, toAdd |-> toAdd,
        toRemove |-> toRemove, boosting |-> boosting, actualRemoved |-> Pos(0, 0), allOrbs |-> {}, thisUserScore |-> 0,
        deadSnakePositions |-> <<>>]]
  /\ UNCHANGED << userToOthersPositions, userToOwnPositions, userToSnakeDeque,
                  positionToUser, orbs, numDeathOrbs, userOrbSegmentAccumulator,
                  userBoostCostAccumulator, userSegmentAccumulator, userLocks,
                  leaderboard, youDiedSent, deathDrops, joined, joining, replay, orbData, snakeBody, scoreLedger, runVars,
                  ticksLeft >>

\* An update arrives whose content the run draws from its inputs.
ReceiveUpdate(t, user, fields, toAdd, toRemove, boosting) ==
  /\ TakeUpdate(t, user, fields, toAdd, toRemove, boosting)
  /\ UNCHANGED clientVars

\* userToOwnPositions after the first statement of updateOwnPositions, which
\* gives the user an empty set when it has none.
OwnBefore(user) ==
  IF user \in DOMAIN userToOwnPositions
  THEN userToOwnPositions
  ELSE MapPut(userToOwnPositions, user, {})

\* An updateOwnPositions that believes the client: the position taken out of the
\* own set and the index, and returned, is the one the client claims.
UpdateOwnPositions_ClientTail(user, toAdd, toRemove) ==
  LET deque == userToSnakeDeque[user]
  IN  [own        |-> [OwnBefore(user) EXCEPT ![user] = (@ \cup {toAdd}) \ {toRemove}],
       deque      |-> [userToSnakeDeque EXCEPT ![user] = MovedDeque(deque, toAdd)],
       index      |-> MapRemove(MapPut(positionToUser, toAdd, user), toRemove),
       actualTail |-> toRemove]

\* updateOwnPositions for a snake that exists: the new head enters the own set,
\* the deque and the index, the server's own tail leaves them and is returned;
\* toRemove is not read.
UpdateOwnPositions(user, toAdd, toRemove) ==
  LET deque      == userToSnakeDeque[user]
      actualTail == (<<toAdd>> \o deque)[Len(deque) + 1]
  IN  [own        |-> [OwnBefore(user) EXCEPT ![user] = (@ \cup {toAdd}) \ {actualTail}],
       deque      |-> [userToSnakeDeque EXCEPT ![user] = MovedDeque(deque, toAdd)],
       index      |-> MapRemove(MapPut(positionToUser, toAdd, user), actualTail),
       actualTail |-> actualTail]

\* The thread takes the user's lock and runs updateOwnPositions; when the snake
\* does not exist the update returns at once and the lock is released.
LockAndMove(t) ==
  LET me    == threads[t]
      user  == me.user
      toAdd == me.toAdd
      ownBefore == OwnBefore(user)
  IN  /\ me.pc = "lock"
      /\ LockIsFree(user)
      /\ IF ~SnakeExists(user)
         THEN /\ userToOwnPositions' = ownBefore
              /\ userLocks' = Unlock(userLocks, user)
              /\ threads' = [threads EXCEPT ![t] = IdleThread]
              /\ UNCHANGED << userToSnakeDeque, positionToUser >>
         ELSE LET moved == UpdateOwnPositions(user, toAdd, me.toRemove)
              IN  /\ userToOwnPositions' = moved.own
                  /\ userToSnakeDeque' = moved.deque
                  /\ positionToUser' = moved.index
                  /\ userLocks' = MapPut(userLocks, user, t)
                  /\ threads' = [threads EXCEPT ![t].pc = "broadcast",
                                                ![t].actualRemoved = moved.actualTail]
      /\ UNCHANGED << userToOthersPositions, orbs, numDeathOrbs, userOrbSegmentAccumulator,
                      userBoostCostAccumulator, userSegmentAccumulator, leaderboard,
                      outbox, youDiedSent, deathDrops, joined, joining, replay, clientVars, orbData, snakeBody, scoreLedger, runVars, updatesLeft,
                      ticksLeft >>

\* ------------------------------------------------------------------------
\* handlePositionUpdate, second step: updateOtherUsersWithPosition
\* ------------------------------------------------------------------------
\* The call is given toAdd and actualRemoved; the local toRemove is not read
\* from here on and the thread's record drops it.
Broadcast(t) ==
  LET me == threads[t]
  IN  /\ me.pc = "broadcast"
      /\ userToOthersPositions' =
           [u \in DOMAIN userToOthersPositions |->
              IF u = me.user THEN userToOthersPositions[u]
              ELSE (userToOthersPositions[u] \cup {me.toAdd}) \ {me.actualRemoved}]
      /\ outbox' = [outbox EXCEPT ![t] =
           Append(@, Msg("UPDATE_POSITION", me.user, "others", <<me.toAdd, me.actualRemoved>>))]
      /\ threads' = [threads EXCEPT ![t].pc = "collide", ![t].toRemove = Pos(0, 0)]
      /\ UNCHANGED << userToOwnPositions, userToSnakeDeque, positionToUser, orbs,
                      numDeathOrbs, userOrbSegmentAccumulator, userBoostCostAccumulator,
                      userSegmentAccumulator, userLocks, leaderboard, youDiedSent,
                      deathDrops, joined, joining, replay, clientVars, orbData, snakeBody, scoreLedger, runVars, updatesLeft, ticksLeft >>

\* ------------------------------------------------------------------------
\* Items
\* ------------------------------------------------------------------------
\* Orbs are equal when their positions are equal: Set.add keeps the orb that is
\* already at the position.
OrbsAdd(orbSet, orb) ==
  IF \E o \in orbSet : o.position = orb.position THEN orbSet ELSE orbSet \cup {orb}

\* A removeOrb that leaves the set as it is.
RemoveOrb_Kept(orbSet, position) == orbSet

\* removeOrb: the set without the orbs at the position.
RemoveOrb(orbSet, position) == { o \in orbSet : o.position # position }

\* removeOrb's result: whether an orb was at the position.
RemoveOrbFound(orbSet, position) == \E o \in orbSet : o.position = position

OrbValue(size) ==
  CASE size = "SMALL"  -> 1
    [] size = "MEDIUM" -> 5
    [] size = "LARGE"  -> 10

\* generateDeathOrbs: walk the dead track head to tail; a position closer than
\* MIN_ORB_DISTANCE to the last orb made is skipped, any other position gets a
\* LARGE orb of the dead skin's colour and counts as one more death orb.
\* st = [orbs, num, last, any].  (The state after a position is bound as the
\* element of a one-element set, so that it is computed once.)
RECURSIVE DeathOrbsLoop(_, _, _, _)
DeathOrbsLoop(positions, orbColor, i, st) ==
  IF i > Len(positions) THEN st
  ELSE LET pos  == positions[i]
           skip == st.any /\ CloserThan(pos, st.last, MIN_ORB_DISTANCE * UnitsPerPixel)
           made == [orbs |-> OrbsAdd(st.orbs, [position |-> pos, size |-> "LARGE",
                                               color |-> orbColor]),
                    num  |-> st.num + 1,
                    last |-> pos,
                    any  |-> TRUE]
       IN  CHOOSE last \in { DeathOrbsLoop(positions, orbColor, i + 1, after) :
                               after \in { IF skip THEN st ELSE made } } : TRUE

GenerateDeathOrbs(orbSet, num, positions, orbColor) ==
  DeathOrbsLoop(positions, orbColor, 1,
                [orbs |-> orbSet, num |-> num, last |-> Pos(0, 0), any |-> FALSE])

\* sendOrbData that sends nothing.
SendOrbData_Unsent(sends, orbSet) == orbData

\* The item set the session members hold after a place where sendOrbData is
\* called when the condition holds: the set at the time of the call.
SendOrbData(sends, orbSet) == IF sends THEN orbSet ELSE orbData

\* The replenish tick: generateOrb fills the pool with new orbs at free places
\* until the number of orbs, not counting numDeathOrbs, reaches the target;
\* sendOrbData then sends the set to every client.
Tick ==
  /\ ticksLeft > 0
  /\ ticksLeft' = ticksLeft - 1
  /\ LET free   == { c \in places : ~RemoveOrbFound(orbs, c.position) }
         wanted == MaxOrbCount - (Cardinality(orbs) - numDeathOrbs)
         count  == Max(0, Min(wanted, Cardinality(free)))
     IN  \E new \in SUBSET free :
           /\ Cardinality(new) = count
           /\ orbs' = orbs \cup new
           /\ orbData' = SendOrbData(TRUE, orbs \cup new)
  /\ UNCHANGED << userToOthersPositions, userToOwnPositions, userToSnakeDeque,
                  positionToUser, numDeathOrbs, userOrbSegmentAccumulator,
                  userBoostCostAccumulator, userSegmentAccumulator, userLocks,
                  leaderboard, threads, outbox, youDiedSent, deathDrops, joined, joining, replay,
                  clientVars, snakeBody, scoreLedger, runVars, updatesLeft >>

\* ------------------------------------------------------------------------
\* collisionCheck, first part: boundary and body collision, death
\* ------------------------------------------------------------------------
\* The boundary test of collisionCheck.
HitsBoundary(head, radius) ==
  \/ PX(head) - radius <= -(ARENA_HALF_EXTENT * UnitsPerPixel)
  \/ PX(head) + radius >= ARENA_HALF_EXTENT * UnitsPerPixel
  \/ PY(head) - radius <= -(ARENA_HALF_EXTENT * UnitsPerPixel)
  \/ PY(head) + radius >= ARENA_HALF_EXTENT * UnitsPerPixel

\* The radius collisionCheck uses for a position of another body: the radius of
\* the score of the position's owner in positionToUser, the base radius when
\* the position has no owner.
OtherUserCollisionRadius(position) ==
  IF position \in DOMAIN positionToUser /\ positionToUser[position] \in DOMAIN leaderboard
  THEN CalculateCollisionRadius(leaderboard[positionToUser[position]])
  ELSE CalculateCollisionRadius(0)

\* The positions the body-collision loop of collisionCheck runs over.
OtherBodies(user) == MapGetOrDefault(userToOthersPositions, user, {})

\* The body-collision test of collisionCheck.
HitsOtherBody(user, head, radius) ==
  \E otherBodyPosition \in OtherBodies(user) :
    WithinDistance(head, otherBodyPosition,
                   radius + OtherUserCollisionRadius(otherBodyPosition))

\* updateOtherUsersWithRemovedPositions: the own positions of the dead user
\* leave the others-positions set of every other user.
OthersWithoutOwn(user) ==
  [u \in DOMAIN userToOthersPositions |->
     IF u = user THEN userToOthersPositions[u]
     ELSE userToOthersPositions[u] \ userToOwnPositions[user]]

\* A set of positions as a list, for a message (the order is the set's own).
RECURSIVE SetToSeq(_)
SetToSeq(S) ==
  IF S = {} THEN <<>>
  ELSE CHOOSE seq \in { <<p[1]>> \o SetToSeq(p[2]) :
                          p \in { <<x, S \ {x}>> : x \in { CHOOSE y \in S : TRUE } } } : TRUE

\* A death that leaves the dead user's deque in the map.
SnakeDequesAfterDeath_Kept(user) == userToSnakeDeque

\* userToSnakeDeque.remove(thisUser) of the death branches.
SnakeDequesAfterDeath(user) == MapRemove(userToSnakeDeque, user)

\* An orb accumulator that keeps the entry of the dead user.
ClearUserOrbAccumulator_Kept(acc, user) == acc

\* clearUserOrbAccumulator.
ClearUserOrbAccumulator(acc, user) == MapRemove(acc, user)

\* server.handleUserDied that leaves the dead player's leaderboard entry.
HandleUserDied_Kept(lb, user) == lb

\* server.handleUserDied: the dead player's leaderboard entry is removed.
HandleUserDied(lb, user) == MapRemove(lb, user)

\* The death of the mover, as both death branches of collisionCheck do it, up to
\* the call of generateDeathOrbs: the notices, the copy of the dead track, the
\* removal from the maps, the leaderboard and the accumulators.
Die(t) ==
  LET me   == threads[t]
      user == me.user
  IN  /\ youDiedSent' = [youDiedSent EXCEPT ![user] = @ + 1]
      /\ userToOthersPositions' = MapRemove(OthersWithoutOwn(user), user)
      /\ userToOwnPositions' = MapRemove(userToOwnPositions, user)
      /\ userToSnakeDeque' = SnakeDequesAfterDeath(user)
      /\ leaderboard' = HandleUserDied(leaderboard, user)
      /\ userOrbSegmentAccumulator' = ClearUserOrbAccumulator(userOrbSegmentAccumulator, user)
      /\ userBoostCostAccumulator' = MapRemove(userBoostCostAccumulator, user)
      /\ userSegmentAccumulator' = MapRemove(userSegmentAccumulator, user)
      /\ outbox' = [outbox EXCEPT ![t] = @ \o
           << Msg("YOU_DIED", user, "self", <<>>),
              Msg("OTHER_USER_DIED", user, "others", SetToSeq(userToOwnPositions[user])) >>]
      /\ threads' = [threads EXCEPT ![t].pc = "drop",
                                    ![t].deadSnakePositions = userToSnakeDeque[user]]
      /\ replay' = MapRemove(replay, user)
      /\ snakeBody' = MapRemove(snakeBody, user)
      /\ scoreLedger' = MapRemove(scoreLedger, user)
      /\ UNCHANGED << positionToUser, orbs, numDeathOrbs, deathDrops, userLocks, joined, joining,
                      clientVars, orbData, runVars, updatesLeft, ticksLeft >>

\* The last call of a death branch: generateDeathOrbs on the copy of the dead
\* track, which ends with sendOrbData; collisionCheck then returns.
DropDeathOrbs(t) ==
  LET me   == threads[t]
      drop == GenerateDeathOrbs(orbs, numDeathOrbs, me.deadSnakePositions,
                                ColorForSkin(me.user))
  IN  /\ me.pc = "drop"
      /\ orbs' = drop.orbs
      /\ numDeathOrbs' = drop.num
      /\ orbData' = SendOrbData(TRUE, drop.orbs)
      /\ deathDrops' = [deathDrops EXCEPT ![me.user] = @ + 1]
      /\ outbox' = [outbox EXCEPT ![t] = Append(@, Msg("SEND_ORBS", me.user, "all", <<>>))]
      /\ threads' = [threads EXCEPT ![t].pc = "boost"]
      /\ UNCHANGED << userToOthersPositions, userToOwnPositions, userToSnakeDeque,
                      positionToUser, userOrbSegmentAccumulator, userBoostCostAccumulator,
                      userSegmentAccumulator, userLocks, leaderboard, youDiedSent, joined,
                      joining, replay, clientVars, snakeBody, scoreLedger, runVars, updatesLeft, ticksLeft >>

\* The death branch taken by a mover whose maps are already gone: the notice
\* is sent, then the null own-positions set throws, and the handler's finally
\* block releases the lock.
DieOnNull(t) ==
  LET user == threads[t].user
  IN  /\ youDiedSent' = [youDiedSent EXCEPT ![user] = @ + 1]
      /\ outbox' = [outbox EXCEPT ![t] = Append(@, Msg("YOU_DIED", user, "self", <<>>))]
      /\ userLocks' = Unlock(userLocks, user)
      /\ threads' = [threads EXCEPT ![t] = IdleThread]
      /\ UNCHANGED << userToOthersPositions, userToOwnPositions, userToSnakeDeque,
                      positionToUser, orbs, numDeathOrbs, userOrbSegmentAccumulator,
                      userBoostCostAccumulator, userSegmentAccumulator, leaderboard,
                      deathDrops, joined, joining, replay, clientVars, orbData, snakeBody, scoreLedger, runVars, updatesLeft, ticksLeft >>

\* collisionCheck up to the item loop: the item set is copied, the mover's
\* score is read, and the mover dies when it touches the boundary or a
\* position of its others-positions set.
Collide(t) ==
  LET me     == threads[t]
      score  == GetCurrentScore(leaderboard, me.user)
      radius == CalculateCollisionRadius(score)
  IN  /\ me.pc = "collide"
      /\ IF HitsBoundary(me.toAdd, radius) \/ HitsOtherBody(me.user, me.toAdd, radius)
         THEN IF me.user \in DOMAIN userToOwnPositions /\ me.user \in DOMAIN userToSnakeDeque
              THEN Die(t)
              ELSE DieOnNull(t)
         ELSE /\ threads' = [threads EXCEPT ![t].pc = "eat",
                                            ![t].allOrbs = orbs,
                                            ![t].thisUserScore = score]
              /\ UNCHANGED << userToOthersPositions, userToOwnPositions, userToSnakeDeque,
                              positionToUser, orbs, numDeathOrbs, userOrbSegmentAccumulator,
                              userBoostCostAccumulator, userSegmentAccumulator, userLocks,
                              leaderboard, outbox, youDiedSent, deathDrops, joined, joining, replay,
                              clientVars, orbData, snakeBody, scoreLedger, runVars, updatesLeft, ticksLeft >>

\* ------------------------------------------------------------------------
\* collisionCheck, second part: the item loop
\* ------------------------------------------------------------------------
\* getNewBodyPartPosition: the tail position rounded to two decimals, (600, 100)
\* for an empty deque.
GetNewBodyPartPosition(deque) ==
  IF Len(deque) = 0
  THEN Pos(600 * UnitsPerPixel, 100 * UnitsPerPixel)
  ELSE Pos(Round2(PX(deque[Len(deque)])), Round2(PY(deque[Len(deque)])))

\* The deque after addLast(position) n times.
RECURSIVE AddLastTimes(_, _, _)
AddLastTimes(deque, position, n) ==
  IF n <= 0 THEN deque ELSE AddLastTimes(Append(deque, position), position, n - 1)

\* segmentAccum += (double) orbValue / pointsPerSegment, for pointsPerSegment
\* of the score given.
CreditOrb(acc, orbValue, score) ==
  AccAdd(acc, orbValue * 2000, CalculatePointsPerSegment2000(score))

\* One pass of the item loop for an orb within reach.  st holds the state the
\* loop works on: orbs, lb (leaderboard), acc (userOrbSegmentAccumulator),
\* deque, own, index, parts (newBodyParts), collided, failed (a null deque
\* was dereferenced).
ConsumeOrb(st, orb, user, thisUserScore) ==
  LET orbValue      == OrbValue(orb.size)
      segmentAccum  == CreditOrb(MapGetOrDefault(st.acc, user, AccZero), orbValue,
                                 thisUserScore)
      segmentsToAdd == AccFloor(segmentAccum)
      eaten         == [st EXCEPT !.orbs = RemoveOrb(st.orbs, orb.position),
                                  !.collided = TRUE,
                                  !.lb = HandleUpdateScore(st.lb, user, orbValue)]
  IN  IF segmentsToAdd > 0 /\ (user \notin DOMAIN st.deque \/ user \notin DOMAIN st.own)
      THEN [eaten EXCEPT !.failed = TRUE]
      ELSE IF segmentsToAdd = 0
      THEN [eaten EXCEPT !.acc = MapPut(st.acc, user, segmentAccum)]
      ELSE LET newPosition == GetNewBodyPartPosition(st.deque[user])
           IN  [eaten EXCEPT
                  !.acc   = MapPut(st.acc, user, AccSubInt(segmentAccum, segmentsToAdd)),
                  !.deque = [st.deque EXCEPT ![user] = AddLastTimes(@, newPosition, segmentsToAdd)],
                  !.own   = [st.own EXCEPT ![user] = @ \cup {newPosition}],
                  !.index = MapPut(st.index, newPosition, user),
                  !.parts = AddLastTimes(st.parts, newPosition, segmentsToAdd)]

\* for (Orb orb : allOrbs): the orbs of the copy within the mover's radius are
\* consumed one after the other.  (The orbs still to visit and the state after
\* an orb are bound as the element of a one-element set, so that they are
\* computed once.)
RECURSIVE ItemLoop(_, _, _, _, _, _)
ItemLoop(todo, st, user, head, radius, thisUserScore) ==
  IF todo = {} \/ st.failed THEN st
  ELSE CHOOSE last \in
         { ItemLoop(p[1], p[2], user, head, radius, thisUserScore) :
             p \in { << todo \ {orb},
                        IF WithinDistance(head, orb.position, radius)
                        THEN ConsumeOrb(st, orb, user, thisUserScore)
                        ELSE st >> : orb \in { CHOOSE o \in todo : TRUE } } } : TRUE

\* The sum of the values of a set of orbs.
RECURSIVE SumOfValues(_)
SumOfValues(orbSet) ==
  IF orbSet = {} THEN 0
  ELSE CHOOSE sum \in { OrbValue(p[1].size) + SumOfValues(p[2]) :
                          p \in { <<orb, orbSet \ {orb}>> :
                                    orb \in { CHOOSE o \in orbSet : TRUE } } } : TRUE

\* The item loop on the second engine, for an update whose items are worth
\* the points in total: every item is credited at the points-per-segment of the
\* score read before the loop, the whole segments are appended and the
\* fraction is kept.
ReplayItems(r, points) ==
  LET segmentAccum  == CreditOrb(r.orbAcc, points, r.score)
      segmentsToAdd == AccFloor(segmentAccum)
  IN  [r EXCEPT !.score  = r.score + points,
                !.length = r.length + segmentsToAdd,
                !.orbAcc = AccSubInt(segmentAccum, segmentsToAdd)]

Eat(t) ==
  LET me     == threads[t]
      radius == CalculateCollisionRadius(me.thisUserScore)
      st0    == [orbs |-> orbs, lb |-> leaderboard, acc |-> userOrbSegmentAccumulator,
                 deque |-> userToSnakeDeque, own |-> userToOwnPositions,
                 index |-> positionToUser, parts |-> <<>>, collided |-> FALSE,
                 failed |-> FALSE]
  IN  /\ me.pc = "eat"
      /\ \E st \in { ItemLoop(me.allOrbs, st0, me.user, me.toAdd, radius,
                                me.thisUserScore) } :
           /\ orbs' = st.orbs
           /\ leaderboard' = st.lb
           /\ userOrbSegmentAccumulator' = st.acc
           /\ userToSnakeDeque' = st.deque
           /\ userToOwnPositions' = st.own
           /\ positionToUser' = st.index
           /\ IF st.failed
              THEN /\ threads' = [threads EXCEPT ![t] = IdleThread]
                   /\ userLocks' = Unlock(userLocks, me.user)
                   /\ UNCHANGED << outbox, orbData, snakeBody >>
              ELSE /\ threads' = [threads EXCEPT ![t].pc = "boost"]
                   /\ UNCHANGED userLocks
                   /\ orbData' = SendOrbData(st.collided, st.orbs)
                   /\ outbox' = [outbox EXCEPT ![t] = @ \o
                        (IF st.collided THEN << Msg("SEND_ORBS", me.user, "all", <<>>) >> ELSE <<>>) \o
                        (IF Len(st.parts) > 0
                         THEN << Msg("INCREASE_OWN_LENGTH", me.user, "self", st.parts),
                                 Msg("INCREASE_OTHER_LENGTH", me.user, "others", st.parts) >>
                         ELSE <<>>)]
                   /\ snakeBody' =
                        IF Len(st.parts) > 0 /\ me.user \in DOMAIN snakeBody
                        THEN [snakeBody EXCEPT ![me.user] = IncreaseOwnLength(@, st.parts)]
                        ELSE snakeBody
           /\ replay' =
                IF me.user \in DOMAIN replay
                THEN [replay EXCEPT ![me.user] =
                        ReplayItems(@, SumOfValues({ o \in me.allOrbs :
                                         WithinDistance(me.toAdd, o.position, radius) }))]
                ELSE replay
           /\ scoreLedger' =
                IF me.user \in DOMAIN scoreLedger
                THEN [scoreLedger EXCEPT ![me.user].consumed = @ + SumOfValues(orbs \ st.orbs)]
                ELSE scoreLedger
           /\ UNCHANGED << userToOthersPositions, numDeathOrbs, userBoostCostAccumulator,
                           userSegmentAccumulator, youDiedSent, deathDrops, joined, joining,
                           clientVars, runVars, updatesLeft, ticksLeft >>

\* ------------------------------------------------------------------------
\* handlePositionUpdate, last step: boost cost, shrink, unlock
\* ------------------------------------------------------------------------
\* decreaseSnakeLength without its lower bound on the length.
CanRemove_IgnoringMinLength(count, currentLength, minLength) == Max(0, Min(count, currentLength))

\* decreaseSnakeLength: the number of segments it removes from a deque of the
\* given length.
CanRemove(count, currentLength, minLength) == Max(0, Min(count, currentLength - minLength))

\* The boost block on the second engine.
ReplayBoost(r, boosting) ==
  LET accumulated      == r.cost + BOOST_COST_PER_UPDATE_HALVES
      actualDeduction  == Min(accumulated \div 2, r.score)
      deducts          == boosting /\ r.score > 0 /\ accumulated >= 2 /\ actualDeduction > 0
      segmentAccum     == r.shrink + (2 * actualDeduction) \div POINTS_PER_SEGMENT
      segmentsToRemove == IF segmentAccum >= 2 THEN segmentAccum \div 2 ELSE 0
  IN  IF ~(boosting /\ r.score > 0) THEN r
      ELSE IF ~deducts THEN [r EXCEPT !.cost = accumulated]
      ELSE [r EXCEPT !.cost   = accumulated - 2 * actualDeduction,
                     !.score  = r.score - actualDeduction,
                     !.shrink = segmentAccum - 2 * segmentsToRemove,
                     !.length = r.length - CanRemove(segmentsToRemove, r.length, SPAWN_LENGTH)]

\* The boost block of handlePositionUpdate followed by the release of the lock.
\* Accumulators are counted in halves.
Boost(t) ==
  LET me              == threads[t]
      user            == me.user
      currentScore    == GetCurrentScore(leaderboard, user)
      accumulated     == MapGetOrDefault(userBoostCostAccumulator, user, 0)
                           + BOOST_COST_PER_UPDATE_HALVES
      pointsToDeduct  == accumulated \div 2
      actualDeduction == Min(pointsToDeduct, currentScore)
      deducts         == me.boosting /\ currentScore > 0 /\ accumulated >= 2
                           /\ actualDeduction > 0
      segmentAccum    == MapGetOrDefault(userSegmentAccumulator, user, 0)
                           + (2 * actualDeduction) \div POINTS_PER_SEGMENT
      segmentsToRemove == IF segmentAccum >= 2 THEN segmentAccum \div 2 ELSE 0
      deque           == MapGetOrDefault(userToSnakeDeque, user, <<>>)
      removed         == IF deducts /\ user \in DOMAIN userToSnakeDeque
                         THEN CanRemove(segmentsToRemove, Len(deque), SPAWN_LENGTH)
                         ELSE 0
      kept            == SubSeq(deque, 1, Len(deque) - removed)
      gone            == [i \in 1..removed |-> deque[Len(deque) + 1 - i]]
  IN  /\ me.pc = "boost"
      /\ userBoostCostAccumulator' =
           IF me.boosting /\ currentScore > 0
           THEN MapPut(userBoostCostAccumulator, user,
                       IF deducts THEN accumulated - 2 * actualDeduction ELSE accumulated)
           ELSE userBoostCostAccumulator
      /\ leaderboard' =
           IF deducts THEN HandleUpdateScore(leaderboard, user, -actualDeduction)
           ELSE leaderboard
      /\ userSegmentAccumulator' =
           IF deducts
           THEN MapPut(userSegmentAccumulator, user, segmentAccum - 2 * segmentsToRemove)
           ELSE userSegmentAccumulator
      /\ IF removed > 0
         THEN /\ userToSnakeDeque' = [userToSnakeDeque EXCEPT ![user] = kept]
              /\ userToOwnPositions' = [userToOwnPositions EXCEPT ![user] = @ \ Range(gone)]
              /\ positionToUser' = [p \in (DOMAIN positionToUser) \ Range(gone) |-> positionToUser[p]]
              /\ userToOthersPositions' =
                   [u \in DOMAIN userToOthersPositions |->
                      IF u = user THEN userToOthersPositions[u]
                      ELSE userToOthersPositions[u] \ Range(gone)]
              /\ outbox' = [outbox EXCEPT ![t] = @ \o
                   << Msg("DECREASE_OWN_LENGTH", user, "self", gone),
                      Msg("DECREASE_OTHER_LENGTH", user, "others", gone) >>]
              /\ snakeBody' =
                   IF user \in DOMAIN snakeBody
                   THEN [snakeBody EXCEPT ![user] = DecreaseOwnLength(@, Len(gone))]
                   ELSE snakeBody
         ELSE UNCHANGED << userToSnakeDeque, userToOwnPositions, positionToUser,
                           userToOthersPositions, outbox, snakeBody >>
      /\ userLocks' = Unlock(userLocks, user)
      /\ threads' = [threads EXCEPT ![t] = IdleThread]
      /\ replay' =
           IF user \in DOMAIN replay
           THEN [replay EXCEPT ![user] = ReplayBoost(@, me.boosting)]
           ELSE replay
      /\ scoreLedger' =
           IF deducts /\ user \in DOMAIN scoreLedger
           THEN [scoreLedger EXCEPT ![user].deducted = @ + actualDeduction]
           ELSE scoreLedger
      /\ UNCHANGED << orbs, numDeathOrbs, userOrbSegmentAccumulator, youDiedSent,
                      deathDrops, joined, joining, clientVars, orbData, runVars, updatesLeft, ticksLeft >>

\* ------------------------------------------------------------------------
\* A further session of the same server
\* ------------------------------------------------------------------------
\* new GameState(slitherServer, gameCode) with its own leaderboard, while no
\* handler is running: every field of the new GameState is empty and its
\* replenish timer starts.  The two accumulator maps of UpdatePositionHandler
\* are static fields of the handler class: the constructor does not touch
\* them.  From here on the model follows the new session, in which the same
\* users may join.
NewSession ==
  /\ \A t \in Threads : threads[t].pc = "idle"
  /\ joined # {}
  /\ updatesLeft \in 1..MaxSessionUpdates
  /\ userToOthersPositions' = EmptyMap
  /\ userToOwnPositions' = EmptyMap
  /\ userToSnakeDeque' = EmptyMap
  /\ positionToUser' = EmptyMap
  /\ orbs' = {}
  /\ numDeathOrbs' = 0
  /\ userOrbSegmentAccumulator' = EmptyMap
  /\ userLocks' = EmptyMap
  /\ leaderboard' = EmptyMap
  /\ outbox' = [t \in Threads |-> <<>>]
  /\ youDiedSent' = [u \in Users |-> 0]
  /\ deathDrops' = [u \in Users |-> 0]
  /\ joined' = {}
  /\ joining' = EmptyMap
  /\ replay' = EmptyMap
  /\ orbData' = {}
  /\ snakeBody' = EmptyMap
  /\ scoreLedger' = EmptyMap
  /\ ticksLeft' = MaxTicks
  /\ UNCHANGED << userBoostCostAccumulator, userSegmentAccumulator, threads, clientVars, runVars,
                  updatesLeft >>

\* ------------------------------------------------------------------------
\* The client
\* ------------------------------------------------------------------------
\* Snake: a snake whose player has the score is drawn at calculateSnakeScale(score).
RenderSnake(score) ==
  /\ score \in 0..MaxRenderScore
  /\ Abs(score - rendered.score) <= MaxScoreStep
  /\ rendered' = [score |-> score, scale |-> CalculateSnakeScale(score)]
  /\ UNCHANGED << userToOthersPositions, userToOwnPositions, userToSnakeDeque,
                  positionToUser, orbs, numDeathOrbs, userOrbSegmentAccumulator,
                  userBoostCostAccumulator, userSegmentAccumulator, userLocks,
                  leaderboard, threads, outbox, youDiedSent, deathDrops, joined, joining,
                  replay, boostSessionActive, sent, clientTicks, orbData, snakeBody, scoreLedger, runVars, updatesLeft,
                  ticksLeft >>

\* The player whose client is modelled.
ClientUser == "A"

\* A boost session that starts at any score.
BoostSessionStarts_AnyScore(session, currentScore) == TRUE

\* if (!boostSessionActive && currentScore >= MIN_BOOST_SCORE) boostSessionActive = true
BoostSessionStarts(session, currentScore) == session \/ currentScore >= MIN_BOOST_SCORE

\* One tick of updatePositions, every 50 ms, while the updates of the tick
\* before have been taken: the boost session is started, continued or ended
\* from the boost input (wantsBoost) and the client's score, then moveSnake
\* sends one update, and a second one when the boost is active.  clientTicks
\* records the input and boostActive of the last tick.
ClientTick(wantsBoost) ==
  LET currentScore == GetCurrentScore(leaderboard, ClientUser)
      session      == IF wantsBoost
                      THEN BoostSessionStarts(boostSessionActive, currentScore)
                      ELSE FALSE
      active       == IF wantsBoost THEN session /\ currentScore > 0 ELSE FALSE
      sessionEnd   == IF currentScore <= 0 THEN FALSE ELSE session
      boostActive  == IF currentScore <= 0 THEN FALSE ELSE active
  IN  /\ ClientUser \in DOMAIN userToSnakeDeque
      /\ sent = <<>>
      /\ clientTicks.total < MaxClientTicks
      /\ boostSessionActive' = sessionEnd
      /\ sent' = IF boostActive THEN << TRUE, TRUE >> ELSE << FALSE >>
      /\ clientTicks' = [total    |-> clientTicks.total + 1,
                         boosting |-> clientTicks.boosting + (IF boostActive THEN 1 ELSE 0),
                         held     |-> wantsBoost,
                         active   |-> boostActive]
      /\ UNCHANGED << userToOthersPositions, userToOwnPositions, userToSnakeDeque,
                      positionToUser, orbs, numDeathOrbs, userOrbSegmentAccumulator,
                      userBoostCostAccumulator, userSegmentAccumulator, userLocks,
                      leaderboard, threads, outbox, youDiedSent, deathDrops, joined,
                      joining, replay, rendered, orbData, snakeBody, scoreLedger, runVars, updatesLeft, ticksLeft >>

\* The oldest update the client has sent arrives at a handler thread.
ReceiveSent(t, toAdd, toRemove) ==
  /\ sent # <<>>
  /\ TakeUpdate(t, ClientUser, RequiredFields, toAdd, toRemove, Head(sent))
  /\ sent' = Tail(sent)
  /\ UNCHANGED << rendered, boostSessionActive, clientTicks >>

\* ------------------------------------------------------------------------
\* Specifications
\* ------------------------------------------------------------------------
InitClient ==
  /\ orbData = {}
  /\ snakeBody = EmptyMap
  /\ rendered = [score |-> 0, scale |-> CalculateSnakeScale(0)]
  /\ boostSessionActive = FALSE
  /\ sent = <<>>
  /\ clientTicks = [total |-> 0, boosting |-> 0, held |-> FALSE, active |-> FALSE]

InitSession ==
  /\ InitClient
  /\ userToOthersPositions = EmptyMap
  /\ userToOwnPositions = EmptyMap
  /\ userToSnakeDeque = EmptyMap
  /\ positionToUser = EmptyMap
  /\ orbs = {}
  /\ numDeathOrbs = 0
  /\ userOrbSegmentAccumulator = EmptyMap
  /\ userBoostCostAccumulator = EmptyMap
  /\ userSegmentAccumulator = EmptyMap
  /\ userLocks = EmptyMap
  /\ leaderboard = EmptyMap
  /\ threads = [t \in Threads |-> IdleThread]
  /\ outbox = [t \in Threads |-> <<>>]
  /\ youDiedSent = [u \in Users |-> 0]
  /\ deathDrops = [u \in Users |-> 0]
  /\ joined = {}
  /\ joining = EmptyMap
  /\ replay = EmptyMap
  /\ scoreLedger = EmptyMap
  /\ ticksLeft = MaxTicks

\* Two players, two handler threads, no boosting.
Init ==
  /\ InitSession
  /\ joinable = Users
  /\ names = DistinctNames
  /\ scores = {0}
  /\ workers = Threads
  /\ heads = ContestedHeads
  /\ boosts = {FALSE}
  /\ places = OrbCandidates
  /\ updatesLeft = MaxUpdates

\* One player, one handler thread, boosting or not, a longer run.
InitSolo ==
  /\ InitSession
  /\ joinable = {"A"}
  /\ names = DistinctNames
  /\ scores = {0}
  /\ workers = {1}
  /\ heads = HeadInputs
  /\ boosts = BOOLEAN
  /\ places = OrbCandidates
  /\ updatesLeft = MaxSoloUpdates

\* The tracks drawn for a dead snake: 10 segments on the x axis, the head at the
\* boundary threshold, in three runs of stacked segments; the runs are 2, 3 or
\* 5 game units apart.
DeadTracks ==
  { [i \in 1..SPAWN_LENGTH |->
       Pos(ARENA_HALF_EXTENT * UnitsPerPixel - (BASE_SNAKE_SIZE * UnitsPerPixel) \div 2
             - (IF i > k1 THEN d1 * UnitsPerPixel ELSE 0)
             - (IF i > k1 + k2 THEN d2 * UnitsPerPixel ELSE 0),
           0)] :
      k1 \in 1..MaxRun, k2 \in 1..MaxRun, d1 \in {2, 3, 5}, d2 \in {2, 3, 5} }

\* A session in which player A, after a long life, has just died at the
\* boundary: the death branch of thread 1 has removed A from the maps and is
\* about to call generateDeathOrbs on the copy of A's track.  B may still join.
InitDrops ==
  \E track \in DeadTracks :
    /\ userToOthersPositions = EmptyMap
    /\ userToOwnPositions = EmptyMap
    /\ userToSnakeDeque = EmptyMap
    /\ positionToUser = [p \in Range(track) |-> "A"]
    /\ orbs = {}
    /\ numDeathOrbs = 0
    /\ userOrbSegmentAccumulator = EmptyMap
    /\ userBoostCostAccumulator = EmptyMap
    /\ userSegmentAccumulator = EmptyMap
    /\ userLocks = MapPut(EmptyMap, "A", 1)
    /\ leaderboard = EmptyMap
    /\ threads = [t \in Threads |->
         IF t = 1
         THEN [IdleThread EXCEPT !.pc = "drop", !.user = "A", !.toAdd = track[1],
                                 !.actualRemoved = Pos(0, 0),
                                 !.deadSnakePositions = track]
         ELSE IdleThread]
    /\ outbox = [t \in Threads |->
         IF t = 1
         THEN << Msg("UPDATE_POSITION", "A", "others", <<track[1], Pos(0, 0)>>),
                 Msg("YOU_DIED", "A", "self", <<>>),
                 Msg("OTHER_USER_DIED", "A", "others", SetToSeq(Range(track))) >>
         ELSE <<>>]
    /\ youDiedSent = [u \in Users |-> IF u = "A" THEN 1 ELSE 0]
    /\ deathDrops = [u \in Users |-> 0]
    /\ joined = {"A"}
    /\ joining = EmptyMap
    /\ replay = EmptyMap
    /\ scoreLedger = EmptyMap
    /\ InitClient
    /\ joinable = Users
    /\ names = DistinctNames
    /\ scores = {0}
    /\ workers = Threads
    /\ heads = ScavengerHeads
    /\ boosts = {FALSE}
    /\ places = RefillOrbCandidates
    /\ updatesLeft = MaxDropUpdates
    /\ ticksLeft = MaxTicks

\* One player, one handler thread, a long run of updates next to an item of
\* value 10, ended by a death at the boundary.
InitGrowth ==
  /\ InitSession
  /\ joinable = {"A"}
  /\ names = DistinctNames
  /\ scores = {0}
  /\ workers = {1}
  /\ heads = GrowthHeads
  /\ boosts = BOOLEAN
  /\ places = GrowthOrbCandidates
  /\ updatesLeft = MaxGrowthUpdates

\* One player that joins with an initial score, one handler thread, one update.
InitRejoin ==
  /\ InitSession
  /\ joinable = {"A"}
  /\ names = DistinctNames
  /\ scores = 0..MaxInitialScore
  /\ workers = {1}
  /\ heads = GrowthHeads
  /\ boosts = BOOLEAN
  /\ places = OrbCandidates
  /\ updatesLeft = MaxRejoinUpdates

\* Two players that ask for the same username in different case, two handler
\* threads.
InitNames ==
  /\ InitSession
  /\ joinable = Users
  /\ names = ClashingNames
  /\ scores = {0}
  /\ workers = Threads
  /\ heads = ContestedHeads
  /\ boosts = {FALSE}
  /\ places = OrbCandidates
  /\ updatesLeft = MaxNamesUpdates

Next ==
  \/ \E user \in Users, initialScore \in scores : HandleNewClient(user, initialScore)
  \/ \E user \in Users : Join(user)
  \/ NewSession
  \/ Tick
  \/ \E t \in Threads, user \in Users, fields \in MessageShapes :
        RejectUpdate(t, user, fields)
  \/ \E t \in Threads, user \in Users, fields \in MessageShapes, toAdd \in heads,
        toRemove \in RemoveInputs, boosting \in boosts :
          ReceiveUpdate(t, user, fields, toAdd, toRemove, boosting)
  \/ \E t \in Threads : LockAndMove(t)
  \/ \E t \in Threads : Broadcast(t)
  \/ \E t \in Threads : Collide(t)
  \/ \E t \in Threads : DropDeathOrbs(t)
  \/ \E t \in Threads : Eat(t)
  \/ \E t \in Threads : Boost(t)

Spec == Init /\ [][Next]_vars

SpecSolo == InitSolo /\ [][Next]_vars

SpecGrowth == InitGrowth /\ [][Next]_vars

SpecDrops == InitDrops /\ [][Next]_vars

\* The next step of the update the handler thread is processing.
HandlerStep(t) ==
  LockAndMove(t) \/ Broadcast(t) \/ Collide(t) \/ DropDeathOrbs(t) \/ Eat(t) \/ Boost(t)

\* Two players, two handler threads; a handler thread that can take its next
\* step is scheduled: an update is a bounded, synchronous computation on a
\* running thread, and lock() returns once the lock stays free.
SpecLive == Init /\ [][Next]_vars /\ \A t \in Threads : WF_vars(HandlerStep(t))

SpecRejoin == InitRejoin /\ [][Next]_vars

SpecNames == InitNames /\ [][Next]_vars

\* Snakes are rendered for scores drawn from 0..MaxRenderScore; no session runs.
InitScale ==
  /\ InitSession
  /\ joinable = {}
  /\ names = DistinctNames
  /\ scores = {0}
  /\ workers = {}
  /\ heads = {}
  /\ boosts = {FALSE}
  /\ places = {}
  /\ updatesLeft = 0

NextScale == \E score \in 0..MaxRenderScore : RenderSnake(score)

SpecScale == InitScale /\ [][NextScale]_vars

\* The initial scores of the runs with a client: enough to start a boost.
ClientScores == {2 * MIN_BOOST_SCORE}

\* One player whose updates are sent by its client, one handler thread, no items.
InitBoostRate ==
  /\ InitSession
  /\ joinable = {ClientUser}
  /\ names = DistinctNames
  /\ scores = ClientScores
  /\ workers = {1}
  /\ heads = GrowthHeads
  /\ boosts = BOOLEAN
  /\ places = {}
  /\ updatesLeft = 2 * MaxClientTicks

NextBoostRate ==
  \/ \E initialScore \in scores : HandleNewClient(ClientUser, initialScore)
  \/ Join(ClientUser)
  \/ \E wantsBoost \in BOOLEAN : ClientTick(wantsBoost)
  \/ \E t \in Threads, toAdd \in heads, toRemove \in RemoveInputs :
        ReceiveSent(t, toAdd, toRemove)
  \/ \E t \in Threads : LockAndMove(t)
  \/ \E t \in Threads : Broadcast(t)
  \/ \E t \in Threads : Collide(t)
  \/ \E t \in Threads : DropDeathOrbs(t)
  \/ \E t \in Threads : Eat(t)
  \/ \E t \in Threads : Boost(t)

SpecBoostRate == InitBoostRate /\ [][NextBoostRate]_vars

\* The initial scores of the runs about the boost input: below and at
\* MIN_BOOST_SCORE.
BoostKeyScores == {MIN_BOOST_SCORE \div 2, MIN_BOOST_SCORE}

\* One player whose updates are sent by its client, with a score that cannot
\* start a boost or that a boost uses up.
InitBoostKeys ==
  /\ InitSession
  /\ joinable = {ClientUser}
  /\ names = DistinctNames
  /\ scores = BoostKeyScores
  /\ workers = {1}
  /\ heads = GrowthHeads
  /\ boosts = BOOLEAN
  /\ places = {}
  /\ updatesLeft = 2 * MaxClientTicks

SpecBoostKeys == InitBoostKeys /\ [][NextBoostRate]_vars

\* The initial scores of the runs about the client's body: none, and the largest.
BodyLengthScores == {0, MaxInitialScore}

\* One player that joins with or without an initial score, one handler thread,
\* a long run of updates, boosting or not, next to an item of value 10.
InitBodyLength ==
  /\ InitSession
  /\ joinable = {"A"}
  /\ names = DistinctNames
  /\ scores = BodyLengthScores
  /\ workers = {1}
  /\ heads = GrowthHeads
  /\ boosts = BOOLEAN
  /\ places = GrowthOrbCandidates
  /\ updatesLeft = MaxGrowthUpdates

SpecBodyLength == InitBodyLength /\ [][Next]_vars

\* ------------------------------------------------------------------------
\* Properties
\* ------------------------------------------------------------------------
\* A live player: one with a track.
Alive(user) == user \in DOMAIN userToSnakeDeque

\* A player that has died: it joined and its track is gone.
Dead(user) == user \in joined /\ ~Alive(user)

\* The thread is inside the pipeline move, broadcast, collision, growth, boost.
InPipeline(t) == threads[t].pc \in {"broadcast", "collide", "drop", "eat", "boost"}

\* The thread has sent a message of the type during its current update.
Sent(t, type) == \E i \in DOMAIN outbox[t] : outbox[t][i].type = type

\* The orbs the item loop of the thread credits: those of its copy of the item
\* set that lie within the mover's radius.
OrbsInReach(t) ==
  { o \in threads[t].allOrbs :
      WithinDistance(threads[t].toAdd, o.position,
                     CalculateCollisionRadius(threads[t].thisUserScore)) }

\* The step is the Collide step of thread t.
CollideStep(t) == threads[t].pc = "collide" /\ threads'[t].pc # "collide"

\* The positions of the tracks of the live players other than the user.
OtherTracks(user) ==
  UNION { Range(userToSnakeDeque[v]) : v \in (DOMAIN userToSnakeDeque) \ {user} }

\* C1: as long as a player has a track, the track has at least the spawn length
\* of 10 segments, whatever moves, growth and boost shrinks it went through.
C1_TrackAtLeastSpawnLength ==
  \A user \in DOMAIN userToSnakeDeque : Len(userToSnakeDeque[user]) >= SPAWN_LENGTH

\* A live player that grew, boosted and has just been shrunk back to 10 segments.
C1_Witness ==
  /\ Alive("A")
  /\ Len(userToSnakeDeque["A"]) = SPAWN_LENGTH
  /\ \E t \in Threads : Sent(t, "DECREASE_OWN_LENGTH")

\* C2: every position of a live player's track has an entry in the
\* position->owner index, and the entry names that player.
C2_TrackPositionsIndexedToOwner ==
  \A user \in DOMAIN userToSnakeDeque :
    \A p \in Range(userToSnakeDeque[user]) :
      p \in DOMAIN positionToUser /\ positionToUser[p] = user

\* C3: once the update in which a player died has completed, the player is in
\* none of the maps (track, own positions, others' positions, locks,
\* accumulators) and no entry of the position->owner index names it.
C3_DeathCleansUpFully ==
  \A user \in Users :
    (Dead(user) /\ \A t \in Threads : threads[t].user # user) =>
      /\ user \notin DOMAIN userToSnakeDeque
      /\ user \notin DOMAIN userToOwnPositions
      /\ user \notin DOMAIN userToOthersPositions
      /\ user \notin DOMAIN userLocks
      /\ user \notin DOMAIN userOrbSegmentAccumulator
      /\ user \notin DOMAIN userBoostCostAccumulator
      /\ user \notin DOMAIN userSegmentAccumulator
      /\ \A p \in DOMAIN positionToUser : positionToUser[p] # user

\* C4: in the boundary check a mover whose head is exactly at
\* ARENA_HALF_EXTENT - collisionRadius(score) on the x axis, inside on the y
\* axis and clear of other bodies, stays alive; one game unit further out it dies.
C4_ExactThresholdSurvives ==
  [][\A t \in Threads :
       CollideStep(t) =>
         LET user   == threads[t].user
             head   == threads[t].toAdd
             radius == CalculateCollisionRadius(GetCurrentScore(leaderboard, user))
             edge   == ARENA_HALF_EXTENT * UnitsPerPixel
             inside == /\ Abs(PY(head)) + radius < edge
                       /\ ~HitsOtherBody(user, head, radius)
         IN  /\ (PX(head) = edge - radius /\ inside) => Alive(user)'
             /\ (PX(head) = edge - radius + UnitsPerPixel /\ inside) => ~Alive(user)'
    ]_vars

\* C5: when an update brings A's head within radius(A) + radius(B) of a cell
\* of the track of another live player B, A dies in that update and B keeps
\* its track, its score and its accumulators.
C5_HeadNearOtherTrackDies ==
  [][\A t \in Threads :
       CollideStep(t) =>
         LET a      == threads[t].user
             head   == threads[t].toAdd
             radius == CalculateCollisionRadius(GetCurrentScore(leaderboard, a))
         IN  \A b \in (DOMAIN userToSnakeDeque) \ {a} :
               (\E cell \in Range(userToSnakeDeque[b]) :
                  WithinDistance(head, cell,
                    radius + CalculateCollisionRadius(GetCurrentScore(leaderboard, b))))
               => /\ ~Alive(a)'
                  /\ Alive(b)'
                  /\ userToSnakeDeque'[b] = userToSnakeDeque[b]
                  /\ GetCurrentScore(leaderboard', b) = GetCurrentScore(leaderboard, b)
                  /\ MapGetOrDefault(userOrbSegmentAccumulator', b, AccZero)
                       = MapGetOrDefault(userOrbSegmentAccumulator, b, AccZero)
                  /\ MapGetOrDefault(userBoostCostAccumulator', b, 0)
                       = MapGetOrDefault(userBoostCostAccumulator, b, 0)
                  /\ MapGetOrDefault(userSegmentAccumulator', b, 0)
                       = MapGetOrDefault(userSegmentAccumulator, b, 0)
    ]_vars

\* C6: the positions the body-collision check of a mover runs over are exactly
\* the positions of the tracks of the other live players.
C6_CheckedPositionsAreOtherTracks ==
  \A t \in Threads :
    threads[t].pc = "collide" => OtherBodies(threads[t].user) = OtherTracks(threads[t].user)

\* C7: an item is consumed at most once: every item an item loop credits to
\* its mover is still in the pool when the loop runs (an item that has left
\* the pool has been credited to a player already).
C7_ItemCreditedAtMostOnce ==
  [][\A t \in Threads :
       (threads[t].pc = "eat" /\ threads'[t].pc # "eat") => OrbsInReach(t) \subseteq orbs
    ]_vars

\* C8: for each player at most one update is inside the pipeline
\* move, broadcast, collision, growth, boost accounting.
C8_OneUpdateInPipelinePerPlayer ==
  \A t1, t2 \in Threads :
    (t1 # t2 /\ InPipeline(t1) /\ InPipeline(t2)) => threads[t1].user # threads[t2].user

\* An update of A is inside the pipeline while a second update of A waits for
\* A's lock.
C8_Witness ==
  \E t1, t2 \in Threads :
    /\ InPipeline(t1) /\ threads[t1].user = "A"
    /\ threads[t2].pc = "lock" /\ threads[t2].user = "A"

\* The step constructs a further session.
NewSessionStep == joined # {} /\ joined' = {}

\* C9: a player gets at most one YOU_DIED notice, death items are generated
\* from its track at most once, and a dead player never has a track again
\* in its session.
C9_DeathOnceAndTerminal ==
  [][\A user \in Users :
       /\ youDiedSent'[user] <= 1
       /\ deathDrops'[user] <= 1
       /\ (Dead(user) /\ ~NewSessionStep) => Dead(user)'
    ]_vars

\* A has died while a second update of A was waiting for A's lock.
C9_Witness ==
  /\ Dead("A")
  /\ youDiedSent["A"] = 1
  /\ deathDrops["A"] = 1
  /\ \E t \in Threads : threads[t].pc = "lock" /\ threads[t].user = "A"

\* C10: an update of a player whose track is gone is discarded: no map, item,
\* score or accumulator changes, no entry is added for the player, nothing is sent.
C10_StaleUpdateChangesNothing ==
  [][\A t \in Threads :
       (threads[t].pc = "lock" /\ threads'[t].pc = "idle") =>
         /\ UNCHANGED << userToOthersPositions, userToOwnPositions, userToSnakeDeque,
                         positionToUser, orbs, numDeathOrbs, leaderboard,
                         userOrbSegmentAccumulator, userBoostCostAccumulator,
                         userSegmentAccumulator >>
         /\ DOMAIN userLocks' = DOMAIN userLocks
         /\ outbox'[t] = <<>>
    ]_vars

\* C11: an update that lacks the add or the remove position, or an x or y of
\* either, never enters the pipeline; the step that receives it sends the
\* error and changes no track, index, item, score or accumulator.
C11_MalformedUpdateRejected ==
  [][\A t \in Threads :
       /\ threads'[t].pc # "idle" => RequiredFields \subseteq threads'[t].fields
       /\ (Receiver(t) /\ updatesLeft' < updatesLeft /\ threads'[t].pc = "idle") =>
            /\ Sent(t, "ERROR")'
            /\ UNCHANGED << userToOthersPositions, userToOwnPositions, userToSnakeDeque,
                            positionToUser, orbs, numDeathOrbs, leaderboard,
                            userOrbSegmentAccumulator, userBoostCostAccumulator,
                            userSegmentAccumulator, userLocks >>
    ]_vars

\* A malformed update has been rejected in a session with a live player and items.
C11_Witness ==
  /\ Alive("A")
  /\ orbs # {}
  /\ \E t \in Threads : Sent(t, "ERROR")

\* The step is the item loop of thread t.
EatStep(t) == threads[t].pc = "eat" /\ threads'[t].pc # "eat"

\* C12: a mover at a score where pointsPerSegment = 2, with an empty growth
\* accumulator, whose item loop consumes one item of value 10: its score grows
\* by exactly 10 and exactly 5 segments are appended to its track, each at the
\* position the tail had.
C12_ValueTenItemAppendsFiveAtTail ==
  [][\A t \in Threads :
       LET user  == threads[t].user
           score == GetCurrentScore(leaderboard, user)
           deque == userToSnakeDeque[user]
           tail  == deque[Len(deque)]
       IN  ( /\ EatStep(t)
             /\ CalculatePointsPerSegment2000(score) = 2 * 2000
             /\ MapGetOrDefault(userOrbSegmentAccumulator, user, AccZero) = AccZero
             /\ Cardinality(OrbsInReach(t)) = 1
             /\ \A o \in OrbsInReach(t) : OrbValue(o.size) = 10 /\ o \in orbs )
           => /\ GetCurrentScore(leaderboard', user) = score + 10
              /\ userToSnakeDeque'[user] = deque \o [i \in 1..5 |-> tail]
    ]_vars

\* The step is the boost block of thread t, for a boosting update.
BoostingStep(t) ==
  threads[t].pc = "boost" /\ threads'[t].pc = "idle" /\ threads[t].boosting

\* The boosting player of thread t is alive with more than 10 segments, has
\* the score and the accumulators (in halves) given, and has eaten no item in
\* the update.
BoostPhase(t, score, cost, segments) ==
  LET user == threads[t].user
  IN  /\ BoostingStep(t)
      /\ Alive(user)
      /\ Len(userToSnakeDeque[user]) > SPAWN_LENGTH
      /\ ~Sent(t, "SEND_ORBS")
      /\ GetCurrentScore(leaderboard, user) = score
      /\ MapGetOrDefault(userBoostCostAccumulator, user, 0) = cost
      /\ MapGetOrDefault(userSegmentAccumulator, user, 0) = segments

\* The player of thread t has, after the step, the score and the accumulators
\* given and a track shortened by the number of tail segments given.
BoostOutcome(t, score, cost, segments, removed) ==
  LET user  == threads[t].user
      deque == userToSnakeDeque[user]
  IN  /\ GetCurrentScore(leaderboard', user) = score
      /\ MapGetOrDefault(userBoostCostAccumulator', user, 0) = cost
      /\ MapGetOrDefault(userSegmentAccumulator', user, 0) = segments
      /\ userToSnakeDeque'[user] = SubSeq(deque, 1, Len(deque) - removed)

C15_MapsRemovedBeforeDeathItems ==
  [][/\ \A o \in orbs' : o.color \in Users => o.color \notin DOMAIN userToSnakeDeque'
     /\ \A t \in Threads :
          (threads[t].pc = "drop" /\ threads'[t].pc # "drop") =>
            LET user == threads[t].user
            IN  /\ user \notin DOMAIN userToSnakeDeque
                /\ user \notin DOMAIN userToOwnPositions
                /\ user \notin DOMAIN userToOthersPositions
                /\ user \notin DOMAIN userOrbSegmentAccumulator
                /\ user \notin DOMAIN userBoostCostAccumulator
                /\ user \notin DOMAIN userSegmentAccumulator
    ]_vars

\* A player has died, its update has sent the notice and the item set, and its
\* death items are live.
C15_Witness ==
  /\ Dead("A")
  /\ deathDrops["A"] = 1
  /\ \E o \in orbs : o.color = ColorForSkin("A")
  /\ \E t \in Threads : Sent(t, "SEND_ORBS") /\ Sent(t, "YOU_DIED")

\* The step is the death of the mover of thread t.
DeathStep(t) == CollideStep(t) /\ Alive(threads[t].user) /\ ~Alive(threads[t].user)'

\* C16: when a player dies, the OTHER_USER_DIED notice sent in that step lists
\* every position the dead player's track had at the time of death.
C16_DeathNoticeListsWholeTrack ==
  [][\A t \in Threads :
       DeathStep(t) =>
         \E i \in DOMAIN outbox'[t] :
           /\ outbox'[t][i].type = "OTHER_USER_DIED"
           /\ Range(userToSnakeDeque[threads[t].user]) \subseteq Range(outbox'[t][i].positions)
    ]_vars

\* C17: every death notice sent to the other session members carries the dead
\* player's skin id together with the list of vacated positions.
C17_DeathNoticeCarriesSkinId ==
  \A t \in Threads :
    \A i \in DOMAIN outbox[t] :
      outbox[t][i].type = "OTHER_USER_DIED" =>
        {"removePositions", "skinId"} \subseteq outbox[t][i].keys

\* The step is the generateDeathOrbs call of thread t.
DropStep(t) == threads[t].pc = "drop" /\ threads'[t].pc # "drop"

\* The positions of the items the step adds to the pool.
EmittedPositions == { o.position : o \in orbs' \ orbs }

\* The item emitted last before the run of track[i] (walking from the head) is
\* at another point, closer than 3 units to track[i].
ShadowedByLastItem(track, i) ==
  \E j \in 1..(i - 1) :
    /\ track[j] # track[i]
    /\ track[j] \in EmittedPositions
    /\ \A k \in (j + 1)..(i - 1) : track[k] = track[i] \/ track[k] \notin EmittedPositions
    /\ CloserThan(track[i], track[j], 3 * UnitsPerPixel)

LiveDeathOrbs == { o \in orbs : o.color \in { ColorForSkin(user) : user \in Users } }

\* C19: the death-drop counter equals the number of death-drop items live in
\* the item pool.
C19_CounterEqualsLiveDeathItems ==
  numDeathOrbs = Cardinality(LiveDeathOrbs)

\* C20: the number of live ambient items (the live items that are not death
\* drops) never exceeds the ambient target count.
C20_AmbientItemsWithinTarget ==
  Cardinality(orbs \ LiveDeathOrbs) <= MaxOrbCount

\* The positions removeOrb is probed with: those of the live items, those of
\* the generator's places, and one that never holds an item.
ProbePositions ==
  { o.position : o \in orbs } \cup { c.position : c \in places } \cup { Pos(0, 0) }

MoveStep(t) == threads[t].pc = "lock" /\ threads'[t].pc = "broadcast"

\* The step is the updateOtherUsersWithPosition call of thread t.
BroadcastStep(t) == threads[t].pc = "broadcast" /\ threads'[t].pc = "collide"

\* C22: the remove position the client claims has no influence.  The move
\* leaves the same track, own set and index and returns the same tail whatever
\* position is claimed, the tail being the one the server popped; it touches
\* no score, item or accumulator; the move broadcast carries the new head and
\* the popped tail, and the others' sets lose the popped tail; from the
\* broadcast on the update no longer holds the claimed position.
C22_ClaimedRemoveHasNoInfluence ==
  [][\A t \in Threads :
       LET me   == threads[t]
           user == me.user
       IN  /\ MoveStep(t) =>
                /\ \A claimed \in RemoveInputs :
                     LET moved == UpdateOwnPositions(user, me.toAdd, claimed)
                     IN  /\ userToSnakeDeque' = moved.deque
                         /\ userToOwnPositions' = moved.own
                         /\ positionToUser' = moved.index
                         /\ threads'[t].actualRemoved = moved.actualTail
                /\ threads'[t].actualRemoved = userToSnakeDeque[user][Len(userToSnakeDeque[user])]
                /\ UNCHANGED << userToOthersPositions, orbs, numDeathOrbs, leaderboard,
                                userOrbSegmentAccumulator, userBoostCostAccumulator,
                                userSegmentAccumulator, outbox >>
           /\ BroadcastStep(t) =>
                /\ outbox'[t][Len(outbox'[t])] =
                     Msg("UPDATE_POSITION", user, "others", <<me.toAdd, me.actualRemoved>>)
                /\ \A u \in (DOMAIN userToOthersPositions) \ {user} :
                     userToOthersPositions'[u] =
                       (userToOthersPositions[u] \cup {me.toAdd}) \ {me.actualRemoved}
           /\ threads'[t].pc \notin {"lock", "broadcast"} => threads'[t].toRemove = Pos(0, 0)
    ]_vars

\* A move has popped a tail other than the one the client claimed, in a session
\* with a second live player.
C22_Witness ==
  \E t \in Threads :
    /\ threads[t].pc = "broadcast"
    /\ threads[t].toRemove # threads[t].actualRemoved
    /\ threads[t].toRemove = Pos(600 * UnitsPerPixel, 145 * UnitsPerPixel)
    /\ \E u \in DOMAIN userToSnakeDeque : u # threads[t].user

\* C23: for every cell the body-collision check of a mover tests, the radius
\* added to the mover's own is the collision radius of the current score of
\* the other player whose track contains the cell.
C23_ThresholdUsesCellOwnerRadius ==
  \A t \in Threads :
    threads[t].pc = "collide" =>
      \A cell \in OtherBodies(threads[t].user) :
        \A b \in (DOMAIN userToSnakeDeque) \ {threads[t].user} :
          cell \in Range(userToSnakeDeque[b]) =>
            OtherUserCollisionRadius(cell)
              = CalculateCollisionRadius(GetCurrentScore(leaderboard, b))

\* C24: the points a boost deducts are converted into removed segments at the
\* rate pointsPerSegment(score) of the growth curve: over a deducting step the
\* shrink accumulator (in halves of a segment), counting the k whole segments
\* taken out of it, grows by deducted / pointsPerSegment(score), for the score
\* before or after the deduction.
C24_BoostShrinksAtGrowthRate ==
  [][\A t \in Threads :
       LET user   == threads[t].user
           before == GetCurrentScore(leaderboard, user)
           after  == GetCurrentScore(leaderboard', user)
           grown  == MapGetOrDefault(userSegmentAccumulator', user, 0)
                       - MapGetOrDefault(userSegmentAccumulator, user, 0)
       IN  (BoostingStep(t) /\ after < before) =>
             \E score \in {before, after}, k \in 0..(before - after) :
               (grown + 2 * k) * CalculatePointsPerSegment2000(score)
                 = 2 * 2000 * (before - after)
    ]_vars

\* The orders in which the items of a set can be consumed.
Orders(S) ==
  { f \in [1..Cardinality(S) -> S] : \A i, j \in DOMAIN f : f[i] = f[j] => i = j }

\* The growth accumulator after the items of the list have been credited one
\* after the other, each at pointsPerSegment of the score that includes the
\* items before it.
RECURSIVE CreditedInTurn(_, _, _, _)
CreditedInTurn(acc, score, items, i) ==
  IF i > Len(items) THEN acc
  ELSE CreditedInTurn(CreditOrb(acc, OrbValue(items[i].size), score),
                      score + OrbValue(items[i].size), items, i + 1)

\* C25: when the item loop of a mover consumes several items, each item is
\* credited value / pointsPerSegment(score at the time of that item), the score
\* that includes the items consumed before it in the same update: the segments
\* appended and the accumulator left are those of the items credited in turn.
C25_EachItemAtItsOwnScore ==
  [][\A t \in Threads :
       LET user  == threads[t].user
           score == GetCurrentScore(leaderboard, user)
           acc   == MapGetOrDefault(userOrbSegmentAccumulator, user, AccZero)
       IN  ( /\ EatStep(t)
             /\ threads'[t].pc = "boost"
             /\ Cardinality(OrbsInReach(t)) >= 2
             /\ OrbsInReach(t) \subseteq orbs
             /\ threads[t].thisUserScore = score )
           => \E items \in Orders(OrbsInReach(t)) :
                LET total == CreditedInTurn(acc, score, items, 1)
                IN  /\ Len(userToSnakeDeque'[user]) - Len(userToSnakeDeque[user])
                         = AccFloor(total)
                    /\ userOrbSegmentAccumulator'[user] = AccSubInt(total, AccFloor(total))
    ]_vars

\* Live play from score 0 with items of value 1, one per update: the item
\* consumed at score s is credited at pointsPerSegment(s) and the whole
\* segments of the accumulator are appended.
LiveGrowthStep(s, st) ==
  LET segmentAccum  == CreditOrb(st.acc, 1, s)
      segmentsToAdd == AccFloor(segmentAccum)
  IN  [segments |-> st.segments + segmentsToAdd,
       acc      |-> AccSubInt(segmentAccum, segmentsToAdd)]

\* The updates for s = lo, ..., hi - 1, one after the other (the range is
\* halved: first half, then second half from where the first ended).
RECURSIVE LiveGrowthLoop(_, _, _)
LiveGrowthLoop(lo, hi, st) ==
  IF lo >= hi THEN st
  ELSE IF hi - lo = 1 THEN LiveGrowthStep(lo, st)
  ELSE LET mid == (lo + hi) \div 2
       IN  CHOOSE last \in { LiveGrowthLoop(mid, hi, first) :
                               first \in { LiveGrowthLoop(lo, mid, st) } } : TRUE

\* The track length of a player that joined at score 0 and reached the score
\* given by live play, one item of value 1 per update.
LengthAfterLivePlay(score) ==
  LiveGrowthLoop(0, score, [segments |-> SPAWN_LENGTH, acc |-> AccZero]).segments

\* The step adds the user to the session.
JoinStep(user) == user \in DOMAIN joining /\ user \in joined' /\ user \notin joined

\* C26: for every initial score K, the track laid out for a player who joins
\* with initialScore = K is as long as the track of a player who joined at
\* score 0 and then consumed K items of value 1 one at a time.
C26_JoinLengthMatchesLivePlay ==
  [][\A user \in Users :
       JoinStep(user) =>
         Len(userToSnakeDeque'[user]) = LengthAfterLivePlay(joining[user])
    ]_vars

\* The score and track length of the user agree with the replay of the
\* session's events on a second engine.
AgreesWithReplay(user) ==
  /\ GetCurrentScore(leaderboard, user) = replay[user].score
  /\ Len(userToSnakeDeque[user]) = replay[user].length

\* C27: growth is deterministic under replay: a freshly constructed session
\* and a second freshly started engine fed the same updates and the same
\* consumed items hold, for every live player, the same score and the same
\* track length.
C27_GrowthAgreesWithReplay ==
  \A user \in DOMAIN replay :
    (Alive(user) /\ user \in DOMAIN leaderboard) => AgreesWithReplay(user)

\* C28: no two live players of a session have usernames that are equal
\* ignoring case, whatever the interleaving of the join requests, and
\* isUsernameTaken(name) holds exactly while some live player has the name
\* ignoring case.
C28_UsernamesUniqueIgnoringCase ==
  /\ \A u, v \in Users :
       (Alive(u) /\ Alive(v) /\ EqualsIgnoreCase(names[u], names[v])) => u = v
  /\ \A u \in Users :
       IsUsernameTaken(names[u]) <=>
         \E v \in Users : Alive(v) /\ LowerCase(names[v]) = LowerCase(names[u])

\* The score from which on BASE_SNAKE_SIZE + score * SCALE_FACTOR has reached
\* the cap BASE_SNAKE_SIZE * MAX_SNAKE_SCALE (SCALE_FACTOR = 1/20).
CapScore == (MAX_SNAKE_SCALE - 1) * BASE_SNAKE_SIZE * 20

\* The scale is that of the score, at least 1, at most MAX_SNAKE_SCALE, and
\* MAX_SNAKE_SCALE from the cap score on.
ScaleInRange(score, scale) ==
  /\ score >= 0
  /\ scale = CalculateSnakeScale(score)
  /\ scale >= ScaleUnit
  /\ scale <= MAX_SNAKE_SCALE * ScaleUnit
  /\ score >= CapScore => scale = MAX_SNAKE_SCALE * ScaleUnit

PointsPerTwoTicks(ticks) == ticks \div 2

\* C30: a client that has boosted in every tick so far, with all its updates
\* handled and its player alive, has been charged one point per two ticks.
C30_OnePointPerTwoClientTicks ==
  ( /\ Alive(ClientUser)
    /\ ClientUser \in DOMAIN leaderboard
    /\ clientTicks.total > 0
    /\ clientTicks.boosting = clientTicks.total
    /\ sent = <<>>
    /\ \A t \in Threads : threads[t].pc = "idle" )
  => \E initialScore \in scores :
       leaderboard[ClientUser] = initialScore - PointsPerTwoTicks(clientTicks.total)

\* The step belongs to an update of the user handled by thread t: the thread
\* takes, rejects or advances the update.
UpdateStepOf(t, user) ==
  /\ threads'[t] # threads[t] \/ outbox'[t] # outbox[t]
  /\ threads[t].user = user \/ threads'[t].user = user
     \/ (threads'[t] = threads[t] /\ Len(outbox'[t]) = 1 /\ outbox'[t][1].type = "ERROR"
           /\ outbox'[t][1].from = user)

\* The track, score, accumulators and index entries of the user are the same
\* before and after the step.
PlayerUntouched(user) ==
  /\ userToSnakeDeque'[user] = userToSnakeDeque[user]
  /\ MapGetOrDefault(leaderboard', user, 0) = MapGetOrDefault(leaderboard, user, 0)
  /\ MapGetOrDefault(userOrbSegmentAccumulator', user, AccZero)
       = MapGetOrDefault(userOrbSegmentAccumulator, user, AccZero)
  /\ MapGetOrDefault(userBoostCostAccumulator', user, 0)
       = MapGetOrDefault(userBoostCostAccumulator, user, 0)
  /\ MapGetOrDefault(userSegmentAccumulator', user, 0)
       = MapGetOrDefault(userSegmentAccumulator, user, 0)
  /\ \A p \in Range(userToSnakeDeque[user]) :
       /\ (p \in DOMAIN positionToUser') = (p \in DOMAIN positionToUser)
       /\ p \in DOMAIN positionToUser => positionToUser'[p] = positionToUser[p]

\* C31: a step of an update of player P never changes the track, the score,
\* the accumulators or the position->owner index entries of the track
\* positions of another live player Q.
C31_UpdateLeavesOtherPlayersAlone ==
  [][\A t \in Threads, P \in Users, Q \in Users :
       (P # Q /\ UpdateStepOf(t, P) /\ ~NewSessionStep /\ Alive(Q) /\ Alive(Q)')
         => PlayerUntouched(Q)
    ]_vars

\* The user has no entry in any of the three accumulators.
NoAccumulatorOf(user) ==
  /\ user \notin DOMAIN userOrbSegmentAccumulator
  /\ user \notin DOMAIN userBoostCostAccumulator
  /\ user \notin DOMAIN userSegmentAccumulator

\* Thread t is in the rest of the update in which its mover died.
DyingUpdate(t) == threads[t].pc \in {"drop", "boost"} /\ Dead(threads[t].user)

\* C32: when an update results in the mover's death, the pipeline stops for
\* that update: from the death on no item is consumed, no score is changed,
\* no accumulator is written, and when the update has completed the dead
\* player has no accumulator entry, even when the update carried boosting.
C32_DeathStopsThePipeline ==
  [][\A t \in Threads :
       /\ (CollideStep(t) /\ threads'[t].pc = "drop") =>
             /\ orbs' = orbs
             /\ leaderboard' = MapRemove(leaderboard, threads[t].user)
             /\ NoAccumulatorOf(threads[t].user)'
       /\ (DyingUpdate(t) /\ threads'[t] # threads[t]) =>
             /\ orbs \subseteq orbs'
             /\ UNCHANGED << leaderboard, userOrbSegmentAccumulator,
                             userBoostCostAccumulator, userSegmentAccumulator,
                             userToSnakeDeque >>
             /\ threads'[t].pc = "idle" => NoAccumulatorOf(threads[t].user)'
    ]_vars

\* The mover of an update sent with boosting has died and its death items lie
\* within reach of its head; the boost block is next.
C32_Witness ==
  \E t \in Threads :
    /\ threads[t].pc = "boost"
    /\ Dead(threads[t].user)
    /\ threads[t].boosting
    /\ \E o \in orbs :
         WithinDistance(threads[t].toAdd, o.position, CalculateCollisionRadius(0))

\* C33: every change of the session's item set (a replenish tick, an update
\* that consumes an item, a death that drops items) is followed, before the
\* operation completes, by a broadcast of the item set to all session
\* members, and the set sent reflects the change; a handler thread that
\* changed the set has sent SEND_ORBS.
C33_ItemSetChangeIsBroadcast ==
  [][(orbs' # orbs /\ ~NewSessionStep) =>
       /\ orbData' = orbs'
       /\ \A t \in Threads : threads'[t] # threads[t] => Sent(t, "SEND_ORBS")'
    ]_vars

\* A live player has consumed an item in its current update and the item set
\* without that item has been sent.
C33_Witness ==
  \E t \in Threads :
    /\ threads[t].pc = "boost"
    /\ Alive(threads[t].user)
    /\ GetCurrentScore(leaderboard, threads[t].user) > 0
    /\ OrbsInReach(t) # {}
    /\ OrbsInReach(t) \cap orbs = {}
    /\ Sent(t, "SEND_ORBS")
    /\ orbData = orbs

\* The step is a tick of the client's updatePositions.
ClientTickStep == clientTicks'.total = clientTicks.total + 1

\* C34: in the client's boost state machine the boost becomes active, from
\* inactive, only at a tick at which the score is at least MIN_BOOST_SCORE;
\* it is active after a tick only if the boost input is held and the score
\* is above 0; the updates of a tick carry boosting exactly when the boost is
\* active.  (So a boost that ended at score 0 starts again only at a score
\* of at least 10.)
C34_BoostStartsAtTenAndNeedsInputAndScore ==
  [][ClientTickStep =>
       LET currentScore == GetCurrentScore(leaderboard, ClientUser)
       IN  /\ (~clientTicks.active /\ clientTicks'.active) => currentScore >= 10
           /\ clientTicks'.active => (clientTicks'.held /\ currentScore > 0)
           /\ clientTicks'.active = boostSessionActive'
           /\ sent' = IF clientTicks'.active THEN << TRUE, TRUE >> ELSE << FALSE >>
    ]_vars

\* The boost has used the score up: the input is held at score 0 and the
\* boost is not active.
C34_Witness ==
  /\ clientTicks.boosting > 0
  /\ clientTicks.held
  /\ ~clientTicks.active
  /\ ClientUser \in DOMAIN leaderboard
  /\ leaderboard[ClientUser] = 0

\* C35: calculateSnakeScale(score) is MAX_SNAKE_SCALE for every score from
\* 1400 on, the score at which the scaling constants are documented to hit
\* the maximum.
C35_MaxScaleFromDocumentedScore ==
  rendered.score >= DOCUMENTED_MAX_SCORE => rendered.scale = MAX_SNAKE_SCALE * ScaleUnit

\* C36: the client's body of a live player is as long as the player's track on
\* the server, whatever the initial score and whatever moves, growth and boost
\* shrinking have happened (the client handles a message of the server when it
\* is sent, so no message is under way in any state).
C36_ClientBodyAsLongAsTrack ==
  \A user \in Users :
    Alive(user) =>
      /\ user \in DOMAIN snakeBody
      /\ snakeBody[user] = Len(userToSnakeDeque[user])

\* The player that ate the item of value 10 and boosted it down to 8 has a
\* body of 14 on the client: five segments pushed, one popped.
C36_Witness ==
  /\ Alive("A")
  /\ "A" \in DOMAIN snakeBody
  /\ snakeBody["A"] = INITIAL_BODY_LENGTH + 4
  /\ Len(userToSnakeDeque["A"]) = SPAWN_LENGTH + 4
  /\ \E t \in Threads : Sent(t, "DECREASE_OWN_LENGTH")

\* No update of the user is being processed.
NoUpdateOf(user) == \A t \in Threads : threads[t].user # user

\* The growth accumulator holds a value at least 0 and less than 1: the
\* integer part of its value (whole plus the sum of the parts) is 0.
GrowthAccumulatorInUnit(acc) ==
  /\ \A d \in DOMAIN acc.parts : acc.parts[d] >= 0
  /\ AccFloor(acc) = 0

\* An accumulator of the boost block, counted in halves, holds a value at
\* least 0 and less than 1.
HalvesInUnit(halves) == 0 <= halves /\ halves < 2

\* C37: when no update of a live player is being processed, each of the
\* player's three accumulators (growth segments, boost cost, boost segments)
\* is at least 0 and less than 1.
C37_AccumulatorsKeepOnlyTheFraction ==
  \A user \in Users :
    (Alive(user) /\ NoUpdateOf(user)) =>
      /\ GrowthAccumulatorInUnit(MapGetOrDefault(userOrbSegmentAccumulator, user, AccZero))
      /\ HalvesInUnit(MapGetOrDefault(userBoostCostAccumulator, user, 0))
      /\ HalvesInUnit(MapGetOrDefault(userSegmentAccumulator, user, 0))

\* A live player whose updates are completed carries half a growth segment
\* and half a boost segment.
C37_Witness ==
  /\ Alive("A") /\ NoUpdateOf("A")
  /\ "A" \in DOMAIN userOrbSegmentAccumulator
  /\ userOrbSegmentAccumulator["A"].parts # EmptyMap
  /\ "A" \in DOMAIN userSegmentAccumulator
  /\ userSegmentAccumulator["A"] = 1

\* C38: the score of a live player is its initial score, plus the values of
\* the items it took out of the item set, minus the points boosting deducted
\* from it.
C38_ScoreIsInitialPlusConsumedMinusBoost ==
  \A user \in Users :
    (Alive(user) /\ user \in DOMAIN scoreLedger) =>
      GetCurrentScore(leaderboard, user) =
        scoreLedger[user].initial + scoreLedger[user].consumed - scoreLedger[user].deducted

\* A lock is held only by a thread that is processing an update of the lock's
\* player and has passed lock(): a thread holds at most its own player's lock
\* and holds none while it waits.
LocksHeldByOwnUpdates ==
  \A user \in DOMAIN userLocks : \A t \in Threads :
    userLocks[user] = t => (threads[t].user = user /\ InPipeline(t))

\* C39: an update holds only the lock of its own player and waits for none
\* while holding it, and every update that has started completes, whichever
\* way it leaves (normal completion, missing track, death).
C39_EveryUpdateCompletes ==
  /\ []LocksHeldByOwnUpdates
  /\ \A t \in Threads : (threads[t].pc # "idle") ~> (threads[t].pc = "idle")

\* A has died and its lock is free again, while a later update of A waits at
\* lock(): it will leave by the early return for a missing track.
C39_Witness ==
  /\ Dead("A")
  /\ MapGetOrDefault(userLocks, "A", NoThread) = NoThread
  /\ \E t \in Threads : threads[t].pc = "lock" /\ threads[t].user = "A"


\* The step is a replenish tick or a step of an update of another player than
\* the one thread t works for.
ConcurrentWriterStep(t) ==
  \/ ticksLeft' = ticksLeft - 1
  \/ \E u \in Threads \ {t} :
       /\ InPipeline(u)
       /\ threads[u].user # threads[t].user
       /\ threads'[u] # threads[u]

\* C40: while the update of a player is in its collision pass, about to read
\* the player's set of other-player positions and the session's item set, no
\* update of another player and no replenish tick changes either set.
C40_SharedSetsGuardedDuringCollisionPass ==
  [][\A t \in Threads :
       (threads[t].pc = "collide" /\ ConcurrentWriterStep(t)) =>
         /\ orbs' = orbs
         /\ MapGetOrDefault(userToOthersPositions', threads[t].user, {}) =
              MapGetOrDefault(userToOthersPositions, threads[t].user, {})
    ]_vars

====
